---- MODULE Spec2Model ----
(***************************************************************************)
(* A model of httpreplay's packet-to-stream pipeline: the per-flow TCP     *)
(* reassembler (smegma.py, TCPStream), the flow demultiplexer              *)
(* (TCPPacketStreamer) and the packet source's collector (reader.py,       *)
(* PcapReader).                                                            *)
(*                                                                         *)
(* Python objects are records; a method that mutates self is an operator   *)
(* from the object's record to the record after the call.  A raised        *)
(* exception is the field err of the returned record, and the upward       *)
(* calls self.parent.handle(...) made during a call are collected, in      *)
(* order, in the field out.                                                *)
(***************************************************************************)
EXTENDS Integers, Sequences, FiniteSets, TLC

\* Python's None and a present value.
None == <<>>
Some(x) == <<x>>

\* dict.pop(k, None) and d[k] = v on dictionaries modelled as functions.
dict_pop(d, k) == [x \in (DOMAIN d) \ {k} |-> d[x]]
dict_set(d, k, v) == [x \in (DOMAIN d) \cup {k} |-> IF x = k THEN v ELSE d[x]]

\* b"".join(list of Packet): the payloads concatenated.
RECURSIVE join(_)
join(packets) ==
    IF packets = <<>> THEN <<>>
    ELSE Head(packets).data \o join(Tail(packets))

\* dpkt.tcp.TH_* flag bits, a segment's flags being the set of bits set.
TH_SYN == "S"
TH_ACK == "A"
TH_FIN == "F"
TH_RST == "R"
TH_PUSH == "P"

NoErr == "none"

\* raise E(tcp): the call ends with the object as it is at the raise.
raise(st, e) == [st EXCEPT !.err = e]

\* Packet(tcp.data) with packet.ts = ts.  dir is history: the direction of
\* the segment that carried the payload (the code does not store it).
Packet(data, ts, to_server) == [data |-> data, ts |-> ts, dir |-> to_server]

\* The arguments of one call of parent.handle().
HandleCall(s, ts, protocol, sent, recv, tlsinfo) ==
    [s |-> s, ts |-> ts, protocol |-> protocol, sent |-> sent,
     recv |-> recv, tlsinfo |-> tlsinfo]

\* TCPStream.init
TCPStream_init(parent, s) ==
    [parent |-> parent, s |-> s, packets |-> <<>>, origins |-> <<>>, sent |-> <<>>,
     recv |-> <<>>, conn |-> FALSE, ts |-> None, cli |-> None, srv |-> None,
     state |-> "init_syn", out |-> <<>>, err |-> NoErr]

\* A variant of state_init_syn that keeps the sequence number of the first
\* SYN when the SYN is retried (the behaviour C7 excludes).
state_init_syn_keep(st, ts, tcp, to_server) ==
    IF TH_RST \in tcp.flags THEN st
    ELSE IF ~to_server /\ tcp.flags # {TH_SYN}
    THEN raise(st, "InvalidTcpPacketOrder")
    ELSE IF ~to_server /\ tcp.data # <<>>
    THEN raise(st, "UnexpectedTcpData")
    ELSE [st EXCEPT !.ts = Some(ts),
                    !.cli = IF @ = None THEN Some(tcp.seq) ELSE @,
                    !.state = "init_syn_ack"]

\* TCPStream.state_init_syn
state_init_syn(st, ts, tcp, to_server) ==
    IF TH_RST \in tcp.flags THEN st
    ELSE IF ~to_server /\ tcp.flags # {TH_SYN}
    THEN raise(st, "InvalidTcpPacketOrder")
    ELSE IF ~to_server /\ tcp.data # <<>>
    THEN raise(st, "UnexpectedTcpData")
    ELSE [st EXCEPT !.ts = Some(ts), !.cli = Some(tcp.seq),
                    !.state = "init_syn_ack"]

\* A variant of the while loop of ack_packets that pops the stored packet
\* but leaves its origins entry (the behaviour C26 excludes).
RECURSIVE ack_walk_keep(_, _, _, _, _)
ack_walk_keep(packets, origins, seq, ack, acc) ==
    IF <<seq, ack>> \in DOMAIN packets
    THEN ack_walk_keep(dict_pop(packets, <<seq, ack>>), origins,
                       seq - Len(packets[<<seq, ack>>].data), ack,
                       <<packets[<<seq, ack>>]>> \o acc)
    ELSE [packets |-> packets, origins |-> origins, released |-> acc]

\* TCPStream.ack_packets, the while loop: walks backward from (seq, ack),
\* popping each stored packet and the origins entry of its start.
RECURSIVE ack_walk(_, _, _, _, _)
ack_walk(packets, origins, seq, ack, acc) ==
    IF <<seq, ack>> \in DOMAIN packets
    THEN LET buf == packets[<<seq, ack>>]
             nseq == seq - Len(buf.data)
         IN ack_walk(dict_pop(packets, <<seq, ack>>),
                     dict_pop(origins, <<nseq, ack>>),
                     nseq, ack, <<buf>> \o acc)
    ELSE [packets |-> packets, origins |-> origins, released |-> acc]

\* TCPStream.ack_packets, "if not self.ts and packets: self.ts = packets[0].ts"
ack_ts(ts, packets) ==
    IF ts = None /\ packets # <<>> THEN Some(packets[1].ts) ELSE ts

\* TCPStream.ack_packets, after the while loop: w is what the loop left
\* (packets, origins) and what it released.
ack_release(st, w, to_server) ==
    [st EXCEPT !.packets = w.packets,
               !.origins = w.origins,
               !.ts = ack_ts(st.ts, w.released),
               !.sent = IF to_server THEN @ \o w.released ELSE @,
               !.recv = IF to_server THEN @ ELSE @ \o w.released]

\* A variant of ack_packets that releases into the buffer of the other
\* direction (the behaviour C5 excludes).
ack_packets_swapped(st, seq, ack, to_server) ==
    ack_release(st, ack_walk(st.packets, st.origins, seq, ack, <<>>),
                ~to_server)

\* TCPStream.ack_packets
ack_packets(st, seq, ack, to_server) ==
    ack_release(st, ack_walk(st.packets, st.origins, seq, ack, <<>>),
                to_server)

\* TCPStream.state_conn, the direction flip: "if tcp.data and to_server and
\* self.recv"
flip_due(st, tcp, to_server) ==
    tcp.data # <<>> /\ to_server /\ st.recv # <<>>

\* TCPStream.state_conn, the flush at a direction flip.
flush(st) ==
    [st EXCEPT !.out = @ \o <<HandleCall(st.s, st.ts, "tcp", join(st.sent),
                                         join(st.recv), None)>>,
               !.sent = <<>>, !.recv = <<>>, !.ts = None]

\* A variant of the store in which a retransmission replaces the stored
\* copy (the behaviour C21 excludes).
store_replace(st, ts, tcp, to_server) ==
    LET tcp_seq == tcp.seq + Len(tcp.data)
        packet == Packet(tcp.data, ts, to_server)
    IN IF <<tcp_seq, tcp.ack>> \in DOMAIN st.packets
       THEN [st EXCEPT !.packets[<<tcp_seq, tcp.ack>>] = packet]
       ELSE IF <<tcp.seq, tcp.ack>> \in DOMAIN st.origins
       THEN [st EXCEPT !.packets =
                           dict_set(@, st.origins[<<tcp.seq, tcp.ack>>], packet)]
       ELSE [st EXCEPT !.origins = dict_set(@, <<tcp.seq, tcp.ack>>,
                                            <<tcp_seq, tcp.ack>>),
                       !.packets = dict_set(@, <<tcp_seq, tcp.ack>>, packet)]

\* TCPStream.state_conn, the retransmission test and the store.
store(st, ts, tcp, to_server) ==
    LET tcp_seq == tcp.seq + Len(tcp.data)
        packet == Packet(tcp.data, ts, to_server)
    IN IF <<tcp.seq, tcp.ack>> \in DOMAIN st.origins
          \/ <<tcp_seq, tcp.ack>> \in DOMAIN st.packets
       THEN \* the stored copy is only looked up (for the log line)
            IF <<tcp_seq, tcp.ack>> \in DOMAIN st.packets THEN st
            ELSE IF st.origins[<<tcp.seq, tcp.ack>>] \in DOMAIN st.packets
            THEN st
            ELSE raise(st, "KeyError")
       ELSE [st EXCEPT !.origins = dict_set(@, <<tcp.seq, tcp.ack>>,
                                            <<tcp_seq, tcp.ack>>),
                       !.packets = dict_set(@, <<tcp_seq, tcp.ack>>, packet)]

\* TCPStream.state_conn, "if tcp.flags & dpkt.tcp.TH_ACK"
conn_ack(st, tcp, to_server) ==
    IF TH_ACK \in tcp.flags
    THEN ack_packets(st, tcp.ack, tcp.seq, ~to_server)
    ELSE st

\* TCPStream.state_conn, "if tcp.flags & dpkt.tcp.TH_RST"
conn_rst(st, tcp, to_server) ==
    IF TH_RST \in tcp.flags
    THEN ack_packets([st EXCEPT !.state = "conn_closed"],
                     tcp.ack, tcp.seq - 1, ~to_server)
    ELSE st

\* TCPStream.state_conn, "if tcp.flags & dpkt.tcp.TH_FIN"
conn_fin(st, tcp, to_server) ==
    LET tcp_seq == tcp.seq + Len(tcp.data)
    IN IF TH_FIN \in tcp.flags
       THEN [st EXCEPT !.state = "conn_finish",
                       !.cli = IF to_server THEN Some(tcp_seq + 1) ELSE @,
                       !.srv = IF to_server THEN @ ELSE Some(tcp_seq + 1)]
       ELSE st

\* TCPStream.state_conn, from "if not tcp.data: return" on.
conn_data(st, ts, tcp, to_server) ==
    IF tcp.data = <<>> THEN st
    ELSE store(IF flip_due(st, tcp, to_server) THEN flush(st) ELSE st,
               ts, tcp, to_server)

\* TCPStream.state_conn
state_conn(st, ts, tcp, to_server) ==
    conn_data(conn_fin(conn_rst(conn_ack(st, tcp, to_server),
                                tcp, to_server),
                       tcp, to_server),
              ts, tcp, to_server)

\* A variant of init_ack_final that resynchronises cli to the segment
\* before it raises (the behaviour C8 excludes).
init_ack_final_resync(st, tcp) ==
    IF tcp.flags # {TH_ACK} THEN raise(st, "InvalidTcpPacketOrder")
    ELSE IF st.cli # Some(tcp.seq)
    THEN raise([st EXCEPT !.cli = Some(tcp.seq)], "UnknownTcpSequenceNumber")
    ELSE IF st.srv # Some(tcp.ack) THEN raise(st, "UnknownTcpSequenceNumber")
    ELSE IF tcp.data # <<>> THEN raise(st, "UnexpectedTcpData")
    ELSE [st EXCEPT !.state = "conn"]

\* TCPStream.state_init_ack, from "if tcp.flags != dpkt.tcp.TH_ACK" on.
init_ack_final(st, tcp) ==
    IF tcp.flags # {TH_ACK} THEN raise(st, "InvalidTcpPacketOrder")
    ELSE IF st.cli # Some(tcp.seq) THEN raise(st, "UnknownTcpSequenceNumber")
    ELSE IF st.srv # Some(tcp.ack) THEN raise(st, "UnknownTcpSequenceNumber")
    ELSE IF tcp.data # <<>> THEN raise(st, "UnexpectedTcpData")
    ELSE [st EXCEPT !.state = "conn"]

\* TCPStream.state_init_ack
state_init_ack(st, ts, tcp, to_server) ==
    IF to_server /\ tcp.flags = {TH_SYN} THEN st
    ELSE IF ~to_server /\ tcp.flags = {TH_SYN, TH_ACK} THEN st
    ELSE IF ~to_server /\ tcp.flags = {TH_RST} THEN st
    ELSE IF to_server /\ tcp.flags = {TH_RST} THEN st
    ELSE IF ~to_server THEN st
    ELSE IF TH_ACK \in tcp.flags /\ tcp.data # <<>>
    THEN state_conn([st EXCEPT !.state = "conn"], ts, tcp, to_server)
    ELSE IF to_server /\ TH_FIN \in tcp.flags
    THEN [st EXCEPT !.state = "conn_finish"]
    ELSE init_ack_final(st, tcp)

\* TCPStream.state_init_syn_ack
state_init_syn_ack(st, ts, tcp, to_server) ==
    IF to_server /\ tcp.flags = {TH_SYN} THEN st
    ELSE IF TH_RST \in tcp.flags THEN [st EXCEPT !.state = "init_syn"]
    ELSE IF to_server /\ tcp.flags = {TH_ACK}
    THEN state_init_ack([st EXCEPT !.cli = Some(tcp.seq),
                                   !.srv = Some(tcp.ack)],
                        ts, tcp, to_server)
    ELSE IF ~to_server /\ tcp.flags = {TH_ACK} THEN st
    ELSE IF to_server /\ TH_ACK \in tcp.flags /\ tcp.data # <<>>
    THEN state_conn([st EXCEPT !.cli = Some(tcp.seq), !.srv = Some(tcp.ack),
                               !.state = "conn"],
                    ts, tcp, to_server)
    ELSE IF ~to_server /\ tcp.flags = {TH_PUSH, TH_ACK}
    THEN [st EXCEPT !.state = "init_syn"]
    ELSE IF to_server \/ tcp.flags # {TH_SYN, TH_ACK}
    THEN raise(st, "InvalidTcpPacketOrder")
    ELSE IF tcp.data # <<>> THEN raise(st, "UnexpectedTcpData")
    ELSE [st EXCEPT !.cli = Some(tcp.ack), !.srv = Some(tcp.seq + 1),
                    !.state = "init_ack"]

\* TCPStream.state_conn_closed, "And let packets loose straight away.":
\* s1 is the stream after state_conn (not reached if that raised).
closed_release(s1, tcp, to_server) ==
    IF s1.err # NoErr THEN s1
    ELSE ack_packets(s1, tcp.seq + Len(tcp.data), tcp.ack, to_server)

\* TCPStream.state_conn_closed
state_conn_closed(st, ts, tcp, to_server) ==
    closed_release(state_conn(st, ts, tcp, to_server), tcp, to_server)

\* TCPStream.state_conn_finish, "if tcp.flags & dpkt.tcp.TH_FIN" at its end
\* (not reached if the ACK part raised).
finish_fin(st, tcp, to_server) ==
    IF st.err # NoErr THEN st
    ELSE IF TH_FIN \in tcp.flags
    THEN [st EXCEPT !.cli = IF to_server THEN Some(tcp.seq + 1) ELSE @,
                    !.srv = IF to_server THEN @ ELSE Some(tcp.seq + 1)]
    ELSE st

\* TCPStream.state_conn_finish, "Indicate the end of this connection.": s1
\* is the stream after state_conn (not reached if that raised).
finish_end(s1, to_server) ==
    IF s1.err # NoErr THEN s1
    ELSE IF to_server THEN [s1 EXCEPT !.srv = None]
    ELSE [s1 EXCEPT !.cli = None]

\* TCPStream.state_conn_finish, "if tcp.flags & dpkt.tcp.TH_ACK": the
\* segment is handed to state_conn with its ack decremented.
finish_ack(st, ts, tcp, to_server) ==
    IF to_server
    THEN IF st.srv # Some(tcp.ack) THEN raise(st, "InvalidTcpPacketOrder")
         ELSE finish_end(state_conn(st, ts, [tcp EXCEPT !.ack = @ - 1],
                                    to_server), to_server)
    ELSE IF st.cli # Some(tcp.ack) THEN raise(st, "InvalidTcpPacketOrder")
         ELSE finish_end(state_conn(st, ts, [tcp EXCEPT !.ack = @ - 1],
                                    to_server), to_server)

\* TCPStream.state_conn_finish
state_conn_finish(st, ts, tcp, to_server) ==
    IF st.cli # Some(tcp.ack) /\ st.srv # Some(tcp.ack)
    THEN state_conn(st, ts, tcp, to_server)
    ELSE finish_fin(IF TH_ACK \in tcp.flags
                    THEN finish_ack(st, ts, tcp, to_server)
                    ELSE st,
                    tcp, to_server)

\* TCPStream.process with the states table: one segment through the handler
\* of the current state.  out and err are those of this call.
TCPStream_process(st0, ts, tcp, to_server) ==
    LET st == [st0 EXCEPT !.out = <<>>, !.err = NoErr]
    IN CASE st.state = "init_syn" -> state_init_syn(st, ts, tcp, to_server)
         [] st.state = "init_syn_ack" ->
                state_init_syn_ack(st, ts, tcp, to_server)
         [] st.state = "init_ack" -> state_init_ack(st, ts, tcp, to_server)
         [] st.state = "conn" -> state_conn(st, ts, tcp, to_server)
         [] st.state = "conn_closed" ->
                state_conn_closed(st, ts, tcp, to_server)
         [] st.state = "conn_finish" ->
                state_conn_finish(st, ts, tcp, to_server)

\* TCPStream.finish: the final pair, delivered with five arguments (the
\* handle() of every handler defaults tlsinfo to None).
TCPStream_finish(st0) ==
    LET st == [st0 EXCEPT !.out = <<>>, !.err = NoErr]
    IN IF st.sent # <<>> \/ st.recv # <<>>
       THEN [st EXCEPT !.out = <<HandleCall(st.s, st.ts, "tcp", join(st.sent),
                                            join(st.recv), None)>>]
       ELSE st

(***************************************************************************)
(* TCPPacketStreamer and PcapReader.  A packet is [src, dst, tcp] with     *)
(* src and dst <<ip, port>>; a non-TCP packet has tcp = None.              *)
(***************************************************************************)
TcpErrors ==
    {"InvalidTcpPacketOrder", "UnknownTcpSequenceNumber", "UnexpectedTcpData"}

\* TCPPacketStreamer.stream
stream(ip, reverse) ==
    IF reverse THEN <<ip.dst[1], ip.dst[2], ip.src[1], ip.src[2]>>
    ELSE <<ip.src[1], ip.src[2], ip.dst[1], ip.dst[2]>>

\* A variant of TCPPacketStreamer.handler that looks up the destination
\* port before the source port.
handler_dst_first(handlers, sn) ==
    LET srcport == sn[2]
        dstport == sn[4]
    IN IF dstport \in DOMAIN handlers.ports THEN handlers.ports[dstport]
       ELSE IF srcport \in DOMAIN handlers.ports THEN handlers.ports[srcport]
       ELSE IF handlers.generic # None THEN handlers.generic[1]
       ELSE "Protocol"

\* TCPPacketStreamer.handler.  handlers is [ports, generic]: the handlers
\* registered by port number, and the "generic" one or None.
handler(handlers, sn) ==
    LET srcport == sn[2]
        dstport == sn[4]
    IN IF srcport \in DOMAIN handlers.ports THEN handlers.ports[srcport]
       ELSE IF dstport \in DOMAIN handlers.ports THEN handlers.ports[dstport]
       ELSE IF handlers.generic # None THEN handlers.generic[1]
       ELSE "Protocol"

\* TCPPacketStreamer.init
TCPPacketStreamer_init(handlers) ==
    [streams |-> <<>>, order |-> <<>>, handlers |-> handlers,
     spurious |-> <<>>]

\* TCPPacketStreamer.process, "This is a new connection.": the stream a
\* bare SYN on an unknown forward key creates.
new_connection(t, sn, tcp_) ==
    IF sn \notin DOMAIN t.streams /\ tcp_.flags = {TH_SYN}
    THEN [t EXCEPT !.streams =
                       dict_set(@, sn, TCPStream_init(handler(t.handlers, sn), sn)),
                   !.order = Append(@, sn)]
    ELSE t

\* TCPPacketStreamer.process, "s.process(ts, tcp, to_server)": st is the
\* stream under key k after the call.
routed_to(t1, k, st, to_server) ==
    [t |-> [t1 EXCEPT !.streams[k] = st], routed |-> Some(k),
     to_server |-> to_server, out |-> st.out, err |-> st.err]

\* TCPPacketStreamer.process, from "if sn in self.streams" on.
select_stream(t1, ts, sn, sr, tcp_) ==
    IF sn \in DOMAIN t1.streams
    THEN routed_to(t1, sn, TCPStream_process(t1.streams[sn], ts, tcp_, TRUE),
                   TRUE)
    ELSE IF sr \in DOMAIN t1.streams
    THEN routed_to(t1, sr, TCPStream_process(t1.streams[sr], ts, tcp_, FALSE),
                   FALSE)
    ELSE [t |-> t1, routed |-> None, to_server |-> FALSE, out |-> <<>>,
          err |-> NoErr]

\* TCPPacketStreamer.process.  The result is the streamer after the call,
\* with what the call did: the stream key and direction the segment was
\* routed to (routed = None when it was dropped), the handle() calls the
\* stream made and the exception it raised.
TCPPacketStreamer_process(t, ts, ip, tcp_) ==
    select_stream(new_connection(t, stream(ip, FALSE), tcp_), ts,
                  stream(ip, FALSE), stream(ip, TRUE), tcp_)

\* TCPPacketStreamer.finish: finish() on every stream, in the dictionary's
\* (insertion) order.
RECURSIVE finish_streams(_, _, _)
finish_streams(t, keys, out) ==
    IF keys = <<>> THEN [t |-> t, out |-> out]
    ELSE LET st == TCPStream_finish(t.streams[Head(keys)])
         IN finish_streams([t EXCEPT !.streams[Head(keys)] = st],
                           Tail(keys), out \o st.out)

TCPPacketStreamer_finish(t) == finish_streams(t, t.order, <<>>)

\* PcapReader.__init__
PcapReader_init ==
    [values |-> <<>>, raise_exceptions |-> TRUE, exceptions |-> <<>>]

\* PcapReader.handle putting the value at the head of the queue.
PcapReader_handle_front(r, c) ==
    [r EXCEPT !.values = <<<<c.s, c.ts, c.protocol, c.sent, c.recv>>>> \o @]

\* PcapReader.handle: the value appended for one call.
PcapReader_handle(r, c) ==
    [r EXCEPT !.values = Append(@, <<c.s, c.ts, c.protocol, c.sent, c.recv>>)]

\* The handler between a TCPStream and the reader passes each call on
\* unchanged (Protocol.handle).
RECURSIVE handle_all(_, _)
handle_all(r, calls) ==
    IF calls = <<>> THEN r
    ELSE handle_all(PcapReader_handle(r, Head(calls)), Tail(calls))

\* PcapReader.process, the try statement around self.tcp.process(): what
\* becomes of the exception err raised for a TCP segment (NoErr: none
\* raised).  The three TCP errors are logged; anything else leaves the
\* generator.
tcp_except(r, ts, packet, err) ==
    IF err = NoErr \/ err \in TcpErrors THEN [reader |-> r, surfaced |-> None]
    ELSE [reader |-> r, surfaced |-> Some(err)]

\* PcapReader.process, a packet of an unknown IP protocol.
unknown_ip_protocol(r, ts, packet) ==
    IF r.raise_exceptions
    THEN [reader |-> r, surfaced |-> Some("UnknownIpProtocol")]
    ELSE [reader |-> [r EXCEPT !.exceptions =
                          dict_set(@, ts, [exception |-> "UnknownIpProtocol",
                                           data |-> packet])],
          surfaced |-> None]

(***************************************************************************)
(* State.                                                                  *)
(***************************************************************************)
VARIABLES
    flow,       \* the TCPStream of the flow under test
    events,     \* every parent.handle() call that flow has made, in order
    trace,      \* the segments processed so far: [ts, tcp, to_server]
    env,        \* the two endpoints that produce the flow (history)
    streamer,   \* the TCPPacketStreamer: its streams, in insertion order
    reader,     \* the PcapReader: values, exceptions, raise_exceptions
    pc,         \* where the generator PcapReader.process() stands
    nread,      \* packets read from the capture; the n-th has timestamp n
    yielded,    \* the values the generator has yielded, in order
    surfaced,   \* the exception that left process(), or None
    last,       \* what the last packet did (history)
    tlsStream,  \* the TLSStream of the flow under test, or None
    wire        \* the bytes the two sides of that flow send (history)

flowVars == <<flow, events, trace, env>>
pipeVars == <<streamer, reader, pc, nread, yielded, surfaced, last>>
tlsVars == <<tlsStream, wire>>
vars == <<flow, events, trace, env, streamer, reader, pc, nread, yielded,
          surfaced, last, tlsStream, wire>>

(***************************************************************************)
(* Bounds.                                                                 *)
(***************************************************************************)
MaxIsn == 2     \* the server's initial sequence number is in 1..MaxIsn
MaxLen == 2     \* payload bytes per data segment
MaxData == 3    \* data segments per flow
MaxSeq == 2     \* sequence and acknowledgement numbers of arbitrary segments
MaxPayload == 1 \* payload bytes of an arbitrary segment
MaxPackets == 4 \* packets in the capture of arbitrary segments

\* The flow key of the flow under test.
FlowKey == <<"10.0.0.1", 1025, "10.0.0.2", 80>>

Segment(seq, ack, flags, data) ==
    [seq |-> seq, ack |-> ack, flags |-> flags, data |-> data]

\* The server's initial sequence numbers: next to the client's (the two
\* sequence spaces then share numbers) and far from it.
SrvIsns == (1..MaxIsn) \cup {100}

(***************************************************************************)
(* The endpoints of a well-formed flow.  The client's initial sequence     *)
(* number is 1 and its payload bytes are 11, 12, ...; the server's are     *)
(* 21, 22, ...  nxt is each side's next sequence number, rcv the ack value *)
(* a side last sent, acked the highest ack a side has received.            *)
(***************************************************************************)
Peer(d) == IF d = "c" THEN "s" ELSE "c"
ToServer(d) == d = "c"

RECURSIVE Bytes(_, _, _)
Bytes(base, from, n) ==
    IF n = 0 THEN <<>> ELSE <<base + from>> \o Bytes(base, from + 1, n - 1)

Payload(e, d, n) ==
    IF d = "c" THEN Bytes(10, Len(e.data.c) + 1, n)
    ELSE Bytes(20, Len(e.data.s) + 1, n)

EnvInit ==
    [phase |-> "closed",
     nxt |-> [c |-> 0, s |-> 0],
     rcv |-> [c |-> 0, s |-> 0],
     acked |-> [c |-> 0, s |-> 0],
     fin |-> [c |-> FALSE, s |-> FALSE],
     data |-> [c |-> <<>>, s |-> <<>>],
     ndata |-> 0,
     piggy |-> FALSE,
     bursts |-> <<>>,
     strict |-> TRUE]

\* One segment of the flow goes through TCPStream.process.
Fed(st, ts, tcp, to_server) ==
    /\ flow' = st
    /\ events' = events \o st.out
    /\ trace' = Append(trace, [ts |-> ts, tcp |-> tcp,
                               to_server |-> to_server])

Feed(tcp, to_server) ==
    Fed(TCPStream_process(flow, Len(trace) + 1, tcp, to_server),
        Len(trace) + 1, tcp, to_server)

\* The pipeline before its first packet, and the flow before its first
\* segment.
Handlers == [ports |-> (80 :> "forward"), generic |-> None]

\* No TLS stream is under test.
TlsIdle ==
    /\ tlsStream = None
    /\ wire = None

NoPacket ==
    [kind |-> "none", ts |-> 0, err |-> NoErr, state |-> "",
     deadhost |-> TRUE]

PipeIdle ==
    /\ streamer = TCPPacketStreamer_init(Handlers)
    /\ reader = PcapReader_init
    /\ pc = "idle"
    /\ nread = 0
    /\ yielded = <<>>
    /\ surfaced = None
    /\ last = NoPacket

FlowIdle ==
    /\ flow = TCPStream_init("forward", FlowKey)
    /\ events = <<>>
    /\ trace = <<>>
    /\ env = EnvInit

FlowInit ==
    /\ flow = TCPStream_init("forward", FlowKey)
    /\ events = <<>>
    /\ trace = <<>>
    /\ env = EnvInit
    /\ PipeIdle
    /\ TlsIdle

FlowSyn ==
    /\ env.phase = "closed"
    /\ Feed(Segment(1, 0, {TH_SYN}, <<>>), TRUE)
    /\ env' = [env EXCEPT !.phase = "syn", !.nxt.c = 2]
    /\ UNCHANGED pipeVars
    /\ UNCHANGED tlsVars

FlowSynAck ==
    /\ env.phase = "syn"
    /\ \E s0 \in SrvIsns :
         /\ Feed(Segment(s0, env.nxt.c, {TH_SYN, TH_ACK}, <<>>), FALSE)
         /\ env' = [env EXCEPT !.phase = "synack", !.nxt.s = s0 + 1,
                               !.rcv.s = env.nxt.c, !.acked.c = env.nxt.c]
    /\ UNCHANGED pipeVars
    /\ UNCHANGED tlsVars

FlowAck ==
    /\ env.phase = "synack"
    /\ Feed(Segment(env.nxt.c, env.nxt.s, {TH_ACK}, <<>>), TRUE)
    /\ env' = [env EXCEPT !.phase = "estab", !.rcv.c = env.nxt.s,
                          !.acked.s = env.nxt.s]
    /\ UNCHANGED pipeVars
    /\ UNCHANGED tlsVars

\* The bursts of payload so far: a data segment extends the last burst when
\* it goes the same way, and starts a new one otherwise.  strict records
\* that every burst was fully acknowledged before the next started.
AddBurst(e, d, bytes) ==
    LET n == Len(e.bursts)
    IN IF n > 0 /\ e.bursts[n].dir = d
       THEN [e EXCEPT !.bursts[n].data = @ \o bytes]
       ELSE [e EXCEPT !.bursts = Append(@, [dir |-> d, data |-> bytes,
                                            flips |-> Len(events)]),
                      !.strict = @ /\ e.acked[Peer(d)] = e.nxt[Peer(d)]]

\* Side d sends n bytes, acknowledging what it has received so far (fresh:
\* everything the peer has sent) and optionally closing with FIN.
FlowData(d, n, fresh, withfin) ==
    LET a == IF fresh THEN env.nxt[Peer(d)] ELSE env.rcv[d]
        bytes == Payload(env, d, n)
        e1 == AddBurst(env, d, bytes)
    IN /\ env.phase = "estab"
       /\ ~env.fin.c /\ ~env.fin.s
       /\ env.ndata < MaxData
       /\ fresh => env.rcv[d] < env.nxt[Peer(d)]
       /\ Feed(Segment(env.nxt[d], a,
                       IF withfin THEN {TH_FIN, TH_PUSH, TH_ACK}
                       ELSE {TH_PUSH, TH_ACK}, bytes), ToServer(d))
       /\ env' = [e1 EXCEPT !.nxt[d] = @ + n + (IF withfin THEN 1 ELSE 0),
                            !.rcv[d] = a,
                            !.acked[Peer(d)] = a,
                            !.data[d] = @ \o bytes,
                            !.ndata = @ + 1,
                            !.fin[d] = withfin,
                            !.piggy = @ \/ withfin]
       /\ UNCHANGED pipeVars
       /\ UNCHANGED tlsVars

\* Side d acknowledges everything the peer has sent with a bare ACK.
FlowPureAck(d) ==
    /\ env.phase = "estab"
    /\ env.rcv[d] < env.nxt[Peer(d)]
    /\ Feed(Segment(env.nxt[d], env.nxt[Peer(d)], {TH_ACK}, <<>>),
            ToServer(d))
    /\ env' = [env EXCEPT !.rcv[d] = env.nxt[Peer(d)],
                          !.acked[Peer(d)] = env.nxt[Peer(d)]]
    /\ UNCHANGED pipeVars
    /\ UNCHANGED tlsVars

\* Side d closes with FIN|ACK once every payload byte of both directions
\* has been acknowledged.
FlowFin(d) ==
    /\ env.phase = "estab"
    /\ ~env.fin[d]
    /\ env.rcv[d] = env.nxt[Peer(d)]
    /\ \A x \in {"c", "s"} : env.fin[x] \/ env.acked[x] = env.nxt[x]
    /\ Feed(Segment(env.nxt[d], env.rcv[d], {TH_FIN, TH_ACK}, <<>>),
            ToServer(d))
    /\ env' = [env EXCEPT !.nxt[d] = @ + 1, !.fin[d] = TRUE]
    /\ UNCHANGED pipeVars
    /\ UNCHANGED tlsVars

\* The capture ends: TCPPacketStreamer.finish calls finish() on the stream.
FlowFinish ==
    /\ env.phase = "estab"
    /\ LET st == TCPStream_finish(flow)
       IN /\ flow' = st
          /\ events' = events \o st.out
    /\ trace' = trace
    /\ env' = [env EXCEPT !.phase = "finished"]
    /\ UNCHANGED pipeVars
    /\ UNCHANGED tlsVars

FlowNext ==
    \/ FlowSyn
    \/ FlowSynAck
    \/ FlowAck
    \/ \E d \in {"c", "s"}, n \in 1..MaxLen, fresh \in BOOLEAN,
          withfin \in BOOLEAN : FlowData(d, n, fresh, withfin)
    \/ \E d \in {"c", "s"} : FlowPureAck(d)
    \/ \E d \in {"c", "s"} : FlowFin(d)
    \/ FlowFinish

SpecFlow == FlowInit /\ [][FlowNext]_vars

(***************************************************************************)
(* The pipeline on arbitrary packets: PcapReader.process() reads packets   *)
(* between the hosts Cli and Srv, with any flags, sequence numbers and     *)
(* payload, hands the TCP segments to the TCPPacketStreamer and yields the *)
(* collected values.                                                       *)
(***************************************************************************)
Cli == <<"10.0.0.1", 1025>>
Srv == <<"10.0.0.2", 80>>

\* The segments the capture may hold.  The payload of the n-th packet is n
\* one or more times, so a delivered byte names the packet that carried it.
FlagSets ==
    {{TH_SYN}, {TH_SYN, TH_ACK}, {TH_ACK}, {TH_PUSH, TH_ACK},
     {TH_FIN, TH_ACK}, {TH_RST}, {TH_RST, TH_ACK}}

Payloads(n) == {<<>>} \cup {[k \in 1..len |-> n] : len \in 1..MaxPayload}

Packets(n) ==
    {[src |-> e[1], dst |-> e[2], tcp |-> Some(Segment(sq, ak, fl, da))] :
        e \in {<<Cli, Srv>>, <<Srv, Cli>>}, sq \in 1..MaxSeq,
        ak \in 1..MaxSeq, fl \in FlagSets, da \in Payloads(n)}

PipeInit ==
    /\ streamer = TCPPacketStreamer_init(Handlers)
    /\ \E b \in BOOLEAN :
           reader = [PcapReader_init EXCEPT !.raise_exceptions = b]
    /\ pc = "loop"
    /\ nread = 0
    /\ yielded = <<>>
    /\ surfaced = None
    /\ last = NoPacket
    /\ FlowIdle
    /\ TlsIdle

\* The state tag of the stream a packet is routed to, before the packet
\* (a stream the packet creates starts in "init_syn"; "" when dropped).
StateBefore(t, packet) ==
    LET sn == stream(packet, FALSE)
        sr == stream(packet, TRUE)
    IN IF sn \in DOMAIN t.streams THEN t.streams[sn].state
       ELSE IF packet.tcp[1].flags = {TH_SYN} THEN "init_syn"
       ELSE IF sr \in DOMAIN t.streams THEN t.streams[sr].state
       ELSE ""

\* A packet of a dead host's capture: a bare SYN from the client, or a
\* segment with RST from either side.
DeadHostPacket(packet) ==
    \/ packet.src = Cli /\ packet.tcp[1].flags = {TH_SYN}
    \/ TH_RST \in packet.tcp[1].flags

\* The next packet through TCPPacketStreamer.process, from this state.
Processed(packet) ==
    TCPPacketStreamer_process(streamer, nread + 1, packet, packet.tcp[1])

\* self.tcp.process(ts, ip, packet) has ended: r is its result, x what the
\* try statement made of it.
TcpDone(packet, ts, r, x) ==
    /\ nread' = ts
    /\ streamer' = r.t
    /\ last' = [kind |-> "tcp", ts |-> ts, err |-> r.err,
                state |-> StateBefore(streamer, packet),
                deadhost |-> last.deadhost /\ DeadHostPacket(packet)]
    /\ reader' = x.reader
    /\ surfaced' = x.surfaced
    /\ pc' = IF x.surfaced = None THEN pc ELSE "raised"
    /\ UNCHANGED yielded
    /\ UNCHANGED flowVars
    /\ UNCHANGED tlsVars

TcpTried(packet, ts, r) ==
    TcpDone(packet, ts, r,
            tcp_except(handle_all(reader, r.out), ts, packet, r.err))

\* for ts, packet in self.pcap: a TCP packet.
ReadTcp(packet) ==
    /\ pc = "loop" /\ reader.values = <<>>
    /\ nread < MaxPackets
    /\ TcpTried(packet, nread + 1, Processed(packet))

\* for ts, packet in self.pcap: an IP packet of an unknown protocol.
ReadOther ==
    LET ts == nread + 1
        packet == [src |-> Cli, dst |-> Srv, tcp |-> None]
        x == unknown_ip_protocol(reader, ts, packet)
    IN /\ pc = "loop" /\ reader.values = <<>>
       /\ nread < MaxPackets
       /\ nread' = ts
       /\ reader' = x.reader
       /\ surfaced' = x.surfaced
       /\ pc' = IF x.surfaced = None THEN pc ELSE "raised"
       /\ last' = [kind |-> "other", ts |-> ts, err |-> "UnknownIpProtocol",
                   state |-> "", deadhost |-> FALSE]
       /\ UNCHANGED <<streamer, yielded>>
       /\ UNCHANGED flowVars
       /\ UNCHANGED tlsVars

\* while self.values: yield self.values.pop(0)
Yield ==
    /\ pc \in {"loop", "finish"}
    /\ reader.values # <<>>
    /\ yielded' = Append(yielded, Head(reader.values))
    /\ reader' = [reader EXCEPT !.values = Tail(@)]
    /\ UNCHANGED <<streamer, pc, nread, surfaced, last>>
    /\ UNCHANGED flowVars
    /\ UNCHANGED tlsVars

\* The capture is exhausted: self.tcp.finish().
EndOfPcap ==
    LET r == TCPPacketStreamer_finish(streamer)
    IN /\ pc = "loop" /\ reader.values = <<>>
       /\ streamer' = r.t
       /\ reader' = handle_all(reader, r.out)
       /\ pc' = "finish"
       /\ last' = [last EXCEPT !.kind = "finish", !.err = NoErr]
       /\ UNCHANGED <<nread, yielded, surfaced>>
       /\ UNCHANGED flowVars
       /\ UNCHANGED tlsVars

\* The values of finish() are yielded and the generator returns.
Return ==
    /\ pc = "finish" /\ reader.values = <<>>
    /\ pc' = "done"
    /\ UNCHANGED <<streamer, reader, nread, yielded, surfaced, last>>
    /\ UNCHANGED flowVars
    /\ UNCHANGED tlsVars

Next ==
    \/ \E packet \in Packets(nread + 1) : ReadTcp(packet)
    \/ ReadOther
    \/ Yield
    \/ EndOfPcap
    \/ Return

Init == PipeInit

Spec == Init /\ [][Next]_vars

(***************************************************************************)
(* What the flow's events deliver.                                         *)
(***************************************************************************)
RECURSIVE SentOf(_)
SentOf(evs) == IF evs = <<>> THEN <<>> ELSE Head(evs).sent \o SentOf(Tail(evs))

RECURSIVE RecvOf(_)
RecvOf(evs) == IF evs = <<>> THEN <<>> ELSE Head(evs).recv \o RecvOf(Tail(evs))

Finished == env.phase = "finished"

\* Both sides have sent their FIN and each FIN has been acknowledged.
TornDown ==
    /\ env.fin.c /\ env.fin.s
    /\ env.rcv.c = env.nxt.s /\ env.rcv.s = env.nxt.c

\* C1 (as claimed): reassembly completeness.  After finish() on a flow
\* that completed the handshake, had every payload byte acknowledged before
\* the first FIN and was torn down in order, the sent fields of the events
\* concatenate to the client's payload, the recv fields to the server's
\* payload, and nothing is left in pending.
C1_Completeness ==
    (Finished /\ TornDown /\ ~env.piggy) =>
        /\ SentOf(events) = env.data.c
        /\ RecvOf(events) = env.data.s
        /\ flow.packets = <<>>

(***************************************************************************)
(* A whole capture through one fresh reassembler: every segment of tr in   *)
(* order, then finish().  The result is the sequence of handle() calls.    *)
(***************************************************************************)
RECURSIVE RunFrom(_, _, _)
RECURSIVE RunOn(_, _, _)
RunFrom(st, evs, tr) ==
    IF tr = <<>> THEN evs \o TCPStream_finish(st).out
    ELSE RunOn(TCPStream_process(st, Head(tr).ts, Head(tr).tcp,
                                 Head(tr).to_server), evs, tr)

RunOn(s1, evs, tr) == RunFrom(s1, evs \o s1.out, Tail(tr))

Run(tr) == RunFrom(TCPStream_init("forward", FlowKey), <<>>, tr)

\* The bytes of a sequence of events: what C2 and C3 compare.
Pairs(evs) == [k \in 1..Len(evs) |-> <<evs[k].sent, evs[k].recv>>]

\* tr with a copy of its i-th segment (same seq, ack, flags and payload)
\* arriving just after its j-th.
WithDup(tr, i, j) ==
    SubSeq(tr, 1, j) \o <<[tr[i] EXCEPT !.ts = tr[j].ts]>>
        \o SubSeq(tr, j + 1, Len(tr))

IsData(x) == x.tcp.data # <<>>

\* C2 (as claimed): retransmission idempotence.  For a finished flow, a
\* duplicate of any one of its data segments, arriving anywhere after the
\* original, leaves the emitted events (their number, sent and recv bytes)
\* as they are without the duplicate.
C2_DupIdempotent ==
    Finished =>
        \A i \in 1..Len(trace) : \A j \in i..Len(trace) :
            IsData(trace[i]) =>
                Pairs(Run(WithDup(trace, i, j))) = Pairs(events)

\* tr with the segments at positions i and j exchanged; the timestamps are
\* those of the arrival positions.
Swap(tr, i, j) ==
    [k \in 1..Len(tr) |->
        LET src == IF k = i THEN j ELSE IF k = j THEN i ELSE k
        IN [tr[src] EXCEPT !.ts = tr[k].ts]]

\* Every segment carrying an ACK arrives after every data segment of the
\* other direction that its ack number covers.
AckAfterCovered(tr) ==
    \A x, y \in 1..Len(tr) :
        (/\ TH_ACK \in tr[x].tcp.flags
         /\ IsData(tr[y])
         /\ tr[x].to_server # tr[y].to_server
         /\ tr[y].tcp.seq + Len(tr[y].tcp.data) <= tr[x].tcp.ack)
        => y < x

\* C3 (as claimed): reorder tolerance.  For a finished flow, exchanging the
\* arrival of two of its data segments, every ACK still arriving after the
\* data it covers, leaves the emitted events as they are.
C3_ReorderTolerant ==
    Finished =>
        \A i, j \in 1..Len(trace) :
            (/\ i < j /\ IsData(trace[i]) /\ IsData(trace[j])
             /\ AckAfterCovered(Swap(trace, i, j)))
            => Pairs(Run(Swap(trace, i, j))) = Pairs(events)

\* The client bursts that follow a server burst: the positions in
\* env.bursts of the bursts that C4 counts.
Triggers ==
    {k \in 2..Len(env.bursts) : env.bursts[k].dir = "c"}

\* C4 (as claimed): direction-flip pairing.  In a flow whose bursts were
\* each fully acknowledged before the next started, the pairs emitted so
\* far (the final pair of finish() not counted) are as many as the client
\* bursts that follow a server burst, and the recv of the pair a client
\* burst triggered is the server burst just before it.
C4_FlipPairing ==
    (env.phase = "estab" /\ env.strict) =>
        /\ Len(events) = Cardinality(Triggers)
        /\ \A k \in Triggers :
               events[Cardinality({j \in Triggers : j <= k})].recv
                   = env.bursts[k - 1].data

\* The flow of the clean GET: handshake, a request that the server
\* acknowledges, a response that the client acknowledges, FIN|ACK, ACK,
\* FIN|ACK, ACK, and finish().
CleanGetFlags ==
    <<{TH_SYN}, {TH_SYN, TH_ACK}, {TH_ACK}, {TH_PUSH, TH_ACK}, {TH_ACK},
      {TH_PUSH, TH_ACK}, {TH_ACK}, {TH_FIN, TH_ACK}, {TH_ACK},
      {TH_FIN, TH_ACK}, {TH_ACK}>>

CleanGet ==
    /\ Finished
    /\ Len(trace) = Len(CleanGetFlags)
    /\ \A k \in 1..Len(trace) : trace[k].tcp.flags = CleanGetFlags[k]
    /\ trace[4].to_server /\ ~trace[5].to_server
    /\ ~trace[6].to_server /\ trace[7].to_server
    /\ trace[8].to_server # trace[9].to_server
    /\ trace[10].to_server = trace[9].to_server
    /\ trace[11].to_server = trace[8].to_server

\* C5: the clean GET delivers exactly one event, of tag "tcp", whose sent
\* is the request payload and whose recv is the response payload, and
\* leaves nothing in pending.
C5_CleanGet ==
    CleanGet =>
        /\ Len(events) = 1
        /\ events[1].protocol = "tcp"
        /\ events[1].sent = trace[4].tcp.data
        /\ events[1].recv = trace[6].tcp.data
        /\ flow.packets = <<>>

\* C5 witness: a clean GET whose sequence spaces share numbers, with a
\* request and a response of more than one byte, has delivered its event.
C5_Witness ==
    /\ CleanGet
    /\ trace[2].tcp.seq <= MaxIsn
    /\ Len(trace[4].tcp.data) > 1 /\ Len(trace[6].tcp.data) > 1
    /\ Len(events) = 1

\* C6 (as claimed): the timestamp of an emitted pair is the capture
\* timestamp of a data segment: the one that carried the first byte of the
\* pair's sent or of its recv, and never that of a handshake segment.
C6_PairTimestamp ==
    \A k \in 1..Len(events) :
        \E x \in 1..Len(trace) :
            /\ IsData(trace[x])
            /\ events[k].ts = Some(trace[x].ts)
            /\ \/ events[k].sent # <<>>
                  /\ events[k].sent[1] = trace[x].tcp.data[1]
               \/ events[k].recv # <<>>
                  /\ events[k].recv[1] = trace[x].tcp.data[1]

(***************************************************************************)
(* Properties of the pipeline on arbitrary packets.                        *)
(***************************************************************************)
\* What a TCPStream keeps between calls.
Kept(st) == [st EXCEPT !.out = <<>>, !.err = NoErr]

\* r is what processing packet does: a segment with RST, routed to a
\* reassembler that waits for the SYN|ACK, takes it back to InitSyn without
\* an event.
RstBack(packet, r) ==
    (/\ TH_RST \in packet.tcp[1].flags
     /\ r.routed # None
     /\ streamer.streams[r.routed[1]].state = "init_syn_ack")
    => /\ r.t.streams[r.routed[1]].state = "init_syn"
       /\ r.out = <<>> /\ r.err = NoErr

\* r is what processing packet does: a bare client SYN on the four-tuple of
\* a reassembler in InitSyn goes to that reassembler and is accepted.
SynAgain(packet, r) ==
    (/\ packet.src = Cli /\ packet.tcp[1].flags = {TH_SYN}
     /\ FlowKey \in DOMAIN streamer.streams
     /\ streamer.streams[FlowKey].state = "init_syn")
    => /\ DOMAIN r.t.streams = DOMAIN streamer.streams
       /\ r.routed = Some(FlowKey) /\ r.to_server
       /\ r.t.streams[FlowKey].state = "init_syn_ack"
       /\ r.t.streams[FlowKey].cli = Some(packet.tcp[1].seq)
       /\ r.out = <<>> /\ r.err = NoErr

\* C7: dead host.  A segment with RST takes a reassembler that is waiting
\* for the SYN|ACK back to InitSyn without an event; a bare client SYN on
\* the four-tuple of a reassembler in InitSyn creates no new flow, is
\* routed to that reassembler with to_server and leaves it in InitSynAck
\* with cli_next_seq the SYN's seq; and a capture of nothing but client
\* SYNs and RSTs yields no event, finish() included.
C7_DeadHost ==
    /\ \A packet \in Packets(nread + 1) :
           /\ RstBack(packet, Processed(packet))
           /\ SynAgain(packet, Processed(packet))
    /\ last.deadhost => reader.values = <<>> /\ yielded = <<>>

\* C7 witness: a capture of at least three packets, all client SYNs or
\* RSTs, whose last packet found the reassembler in InitSyn and was
\* accepted as a SYN; the capture has been finished without an event.
C7_Witness ==
    /\ pc = "done" /\ last.deadhost /\ nread >= 3
    /\ last.state = "init_syn"
    /\ streamer.streams[FlowKey].state = "init_syn_ack"
    /\ yielded = <<>>

\* C8: errors do not corrupt state.  A step that processes a segment for
\* which the reassembler reports InvalidTcpPacketOrder,
\* UnknownTcpSequenceNumber or UnexpectedTcpData leaves every reassembler
\* (state tag, cli, srv, pending, origins, both buffers, pair_ts) as it
\* was and delivers no event.
C8_ErrorsKeepState ==
    [][(last'.kind = "tcp" /\ last'.ts = nread' /\ nread' = nread + 1
        /\ last'.err \in TcpErrors)
       => /\ DOMAIN streamer'.streams = DOMAIN streamer.streams
          /\ \A k \in DOMAIN streamer.streams :
                 Kept(streamer'.streams[k]) = Kept(streamer.streams[k])
          /\ reader'.values = reader.values
          /\ yielded' = yielded]_vars

\* C8 witness: an error reported by a reassembler in ConnFinish.
C8_Witness ==
    /\ last.kind = "tcp" /\ last.err = "InvalidTcpPacketOrder"
    /\ last.state = "conn_finish"

\* C9 (as claimed): the raise_exceptions toggle governs the TCP errors.
\* When the last segment raised one of the three TCP errors, it has
\* surfaced to the caller of process() if raise_exceptions is set, and is
\* recorded in the exceptions map under the segment's timestamp if not.
C9_ToggleGovernsTcpErrors ==
    (last.kind = "tcp" /\ last.err \in TcpErrors) =>
        IF reader.raise_exceptions THEN surfaced = Some(last.err)
        ELSE last.ts \in DOMAIN reader.exceptions

\* C10 (as claimed): every value the generator yields has the six fields
\* (flow_key, timestamp, protocol_tag, sent_bytes, recv_bytes,
\* tls_info_or_none), the last being None for a "tcp" event.
C10_SixFieldEvents ==
    \A k \in 1..Len(yielded) :
        /\ Len(yielded[k]) = 6
        /\ yielded[k][3] = "tcp" => yielded[k][6] = None

(***************************************************************************)
(* The pipeline on a capture of two well-formed flows to the same server,  *)
(* interleaved in any way and cut at any point.  Each flow is: handshake,  *)
(* a request byte, its acknowledgement, a response byte, its               *)
(* acknowledgement, a second request byte.  The next segment of a flow is  *)
(* read off the state its TCPStream is in.                                 *)
(***************************************************************************)
Cli2 == <<"10.0.0.1", 1026>>

Clients == {Cli, Cli2}

ToSrv(c, tcp) == [src |-> c, dst |-> Srv, tcp |-> Some(tcp)]
ToCli(c, tcp) == [src |-> Srv, dst |-> c, tcp |-> Some(tcp)]

\* The segment that follows in the flow whose TCPStream is st.
ScriptAfter(c, st, b) ==
    CASE st.state = "init_syn_ack" ->
             Some(ToCli(c, Segment(1, 2, {TH_SYN, TH_ACK}, <<>>)))
      [] st.state = "init_ack" ->
             Some(ToSrv(c, Segment(2, 2, {TH_ACK}, <<>>)))
      [] st.state = "conn" /\ st.packets = <<>> /\ st.sent = <<>> ->
             Some(ToSrv(c, Segment(2, 2, {TH_PUSH, TH_ACK}, <<b>>)))
      [] st.state = "conn" /\ <<3, 2>> \in DOMAIN st.packets ->
             Some(ToCli(c, Segment(2, 3, {TH_ACK}, <<>>)))
      [] st.state = "conn" /\ st.packets = <<>> /\ st.sent # <<>>
             /\ st.recv = <<>> ->
             Some(ToCli(c, Segment(2, 3, {TH_PUSH, TH_ACK}, <<b>>)))
      [] st.state = "conn" /\ <<3, 3>> \in DOMAIN st.packets ->
             Some(ToSrv(c, Segment(3, 3, {TH_ACK}, <<>>)))
      [] st.state = "conn" /\ st.packets = <<>> /\ st.recv # <<>> ->
             Some(ToSrv(c, Segment(3, 3, {TH_PUSH, TH_ACK}, <<b>>)))
      [] OTHER -> None

\* The next segment of client c's flow, None when the flow has been read.
ScriptStep(c) ==
    IF stream(ToSrv(c, None), FALSE) \notin DOMAIN streamer.streams
    THEN Some(ToSrv(c, Segment(1, 1, {TH_SYN}, <<>>)))
    ELSE ScriptAfter(c, streamer.streams[stream(ToSrv(c, None), FALSE)],
                     nread + 1)

\* for ts, packet in self.pcap: the next segment of one of the two flows.
ReadFlow(c) ==
    /\ pc = "loop" /\ reader.values = <<>>
    /\ ScriptStep(c) # None
    /\ TcpTried(ScriptStep(c)[1], nread + 1, Processed(ScriptStep(c)[1]))

OrderNext ==
    \/ \E c \in Clients : ReadFlow(c)
    \/ Yield
    \/ EndOfPcap
    \/ Return

SpecOrder == Init /\ [][OrderNext]_vars

\* The values PcapReader.handle appends for the calls out, in call order.
RECURSIVE Values(_)
Values(out) ==
    IF out = <<>> THEN <<>>
    ELSE <<PcapReader_handle(PcapReader_init, Head(out)).values[1]>>
             \o Values(Tail(out))

\* q continues p.
Continues(p, q) ==
    Len(q) >= Len(p) /\ SubSeq(q, 1, Len(p)) = p

\* C11: the generator yields the events in the order of the handle() calls,
\* each once: a yield takes the oldest queued event off the queue and
\* nothing else changes the yielded sequence or drops a queued event; a
\* segment is read, and finish() is run, only when every earlier event has
\* been yielded (the queue is empty); the queue then holds the events of the
\* handle() calls of that segment, or of finish(), in call order; and the
\* queue is empty when the generator returns.
C11_EventOrdering ==
    [][/\ yielded' # yielded =>
              /\ reader.values # <<>>
              /\ yielded' = Append(yielded, Head(reader.values))
              /\ reader'.values = Tail(reader.values)
       /\ yielded' = yielded => Continues(reader.values, reader'.values)
       /\ nread' # nread =>
              /\ reader.values = <<>>
              /\ \E c \in Clients :
                     /\ ScriptStep(c) # None
                     /\ streamer' = Processed(ScriptStep(c)[1]).t
                     /\ reader'.values =
                            Values(Processed(ScriptStep(c)[1]).out)
       /\ (pc = "loop" /\ pc' = "finish") =>
              /\ reader.values = <<>>
              /\ reader'.values =
                     Values(TCPPacketStreamer_finish(streamer).out)
       /\ pc' = "done" => pc = "finish" /\ reader'.values = <<>>
       /\ pc = "done" => yielded' = yielded /\ nread' = nread]_vars

\* finish() has queued the last pairs of both flows: the queue holds two
\* events of different flows.
C11_Witness ==
    /\ pc = "finish"
    /\ Len(reader.values) = 2
    /\ reader.values[1][1] # reader.values[2][1]

(***************************************************************************)
(* TLSStream.  A byte is a number and a byte string a sequence of bytes.   *)
(* A TLS record on the wire is its five header bytes (type, two version    *)
(* bytes, two length bytes) and its body.  What dpkt and tlslite make of a *)
(* body is read off its first byte: a handshake body is abstracted to the  *)
(* handshake message it holds, a protected body to what decrypting it      *)
(* gives.                                                                  *)
(***************************************************************************)
\* dpkt.ssl.SSL3_VERSION_BYTES: SSL 3.0 to TLS 1.2.
SSL3_VERSION_BYTES == {<<3, 0>>, <<3, 1>>, <<3, 2>>, <<3, 3>>}

\* dpkt.ssl.RECORD_TYPES: ChangeCipherSpec, Alert, Handshake, AppData.
RECORD_TYPES == {20, 21, 22, 23}

\* dpkt.ssl.tls_multi_factory(buf), from offset i on (i counts from 0) with
\* the records msgs framed so far: the records framed and the number of
\* bytes they take; bad when a header has no SSL/TLS version
\* (SSL3Exception).  A record that is not whole yet (dpkt.NeedData) ends
\* the loop.
RECURSIVE tls_frames(_, _, _)
tls_frames(buf, i, msgs) ==
    IF i + 5 > Len(buf)
    THEN [records |-> msgs, length |-> i, bad |-> FALSE]
    ELSE IF <<buf[i + 2], buf[i + 3]>> \notin SSL3_VERSION_BYTES
    THEN [records |-> msgs, length |-> i, bad |-> TRUE]
    ELSE IF i + 5 + (buf[i + 4] * 256 + buf[i + 5]) > Len(buf)
    THEN [records |-> msgs, length |-> i, bad |-> FALSE]
    ELSE tls_frames(buf, i + 5 + (buf[i + 4] * 256 + buf[i + 5]),
                    Append(msgs,
                           [type |-> buf[i + 1],
                            data |-> SubSeq(buf, i + 6,
                                            i + 5 + (buf[i + 4] * 256
                                                     + buf[i + 5]))]))

tls_multi_factory(buf) == tls_frames(buf, 0, <<>>)

\* buf[length:]
drop(buf, length) == SubSeq(buf, length + 1, Len(buf))

\* What a handshake record's body holds.
HS_CLIENT_HELLO == 1
HS_SERVER_HELLO == 2
HS_SERVER_HELLO_UNSUPPORTED == 3    \* a ServerHello naming a cipher suite
                                    \* tlslite cannot set up
HS_CERTIFICATE == 11
HS_FINISHED == 20

HandshakeTypes ==
    {HS_CLIENT_HELLO, HS_SERVER_HELLO, HS_SERVER_HELLO_UNSUPPORTED,
     HS_CERTIFICATE, HS_FINISHED}

\* TLSStream.parse_record: dpkt.ssl.RECORD_TYPES[record.type](record.data).
\* kind is the class of the parsed object's data; exc the exception raised
\* (SSL3Exception for an unknown record or handshake type, dpkt.NeedData
\* for a handshake message that is cut short).
parse_record(record) ==
    IF record.type \notin RECORD_TYPES
    THEN [kind |-> "", exc |-> "SSL3Exception"]
    ELSE IF record.type # 22 THEN [kind |-> "bytes", exc |-> NoErr]
    ELSE IF record.data = <<>> THEN [kind |-> "", exc |-> "NeedData"]
    ELSE IF record.data[1] \notin HandshakeTypes
    THEN [kind |-> "", exc |-> "SSL3Exception"]
    ELSE IF record.data[1] = HS_CLIENT_HELLO
    THEN [kind |-> "TLSClientHello", exc |-> NoErr]
    ELSE IF record.data[1] \in {HS_SERVER_HELLO, HS_SERVER_HELLO_UNSUPPORTED}
    THEN [kind |-> "TLSServerHello",
          supported |-> record.data[1] = HS_SERVER_HELLO, exc |-> NoErr]
    ELSE [kind |-> "TLSHandshakeOther", exc |-> NoErr]

\* The hellos of the model's handshakes all carry these values.
client_random == "client_random"
server_random == "server_random"
session_id == "session_id"

\* Protected bodies.  The client's write state turns the plaintext byte p
\* into ClientSeal + p, the server's into ServerSeal + p (p in 1 .. 40).
\* The other bodies are damaged records.
ClientSeal == 100
ServerSeal == 150
MaxPlain == 40
BAD_MAC == 200          \* the MAC does not match
BAD_LENGTH == 201       \* not a multiple of the block length
PROTOCOL_ERROR == 202   \* tlslite raises another TLSProtocolException
EMPTY_PLAIN == 203      \* a sound record of no plaintext

\* _TLSStream.decrypt with the state of one side (seal is ClientSeal for
\* client_state, ServerSeal for server_state): the plaintext, or the
\* tlslite exception raised.
decrypt(seal, record_type, buf) ==
    IF buf = <<>> THEN [data |-> <<>>, exc |-> "TLSBadRecordMAC"]
    ELSE IF buf[1] \in (seal + 1)..(seal + MaxPlain)
    THEN [data |-> <<buf[1] - seal>>, exc |-> NoErr]
    ELSE IF buf[1] = EMPTY_PLAIN THEN [data |-> <<>>, exc |-> NoErr]
    ELSE IF buf[1] = BAD_LENGTH
    THEN [data |-> <<>>, exc |-> "TLSDecryptionFailed"]
    ELSE IF buf[1] = PROTOCOL_ERROR
    THEN [data |-> <<>>, exc |-> "TLSProtocolException"]
    ELSE [data |-> <<>>, exc |-> "TLSBadRecordMAC"]

\* except TLSBadRecordMAC / except TLSDecryptionFailed: return b""
caught(r) ==
    IF r.exc \in {"TLSBadRecordMAC", "TLSDecryptionFailed"}
    THEN [data |-> <<>>, exc |-> NoErr]
    ELSE r

\* _TLSStream.init_cipher: the read states of the two sides, set up from
\* the master secret (None for a cipher suite tlslite does not support).
init_cipher(supported, master_secret) ==
    IF supported
    THEN Some([client_state |-> ClientSeal, server_state |-> ServerSeal])
    ELSE None

\* _TLSStream.decrypt_server and decrypt_client
decrypt_server(tls, record_type, buf) ==
    caught(decrypt(tls[1].server_state, record_type, buf))
decrypt_client(tls, record_type, buf) ==
    caught(decrypt(tls[1].client_state, record_type, buf))

\* TLSStream.init
TLSStream_init(parent, secrets) ==
    [parent |-> parent, secrets |-> secrets, state |-> "init", tls |-> None,
     sent |-> <<>>, recv |-> <<>>, raw_sent |-> <<>>, raw_recv |-> <<>>,
     client_hello |-> None, server_hello |-> None,
     out |-> <<>>, err |-> NoErr]

\* What a state handler returns: again is "return True".
wait(t) == [t |-> t, again |-> FALSE]
advance(t) == [t |-> t, again |-> TRUE]

\* TLSStream.state_init, from the master secret on.
init_secret(t, ch, sh) ==
    IF ch.kind # "TLSClientHello" THEN wait([t EXCEPT !.state = "done"])
    ELSE IF sh.kind # "TLSServerHello" THEN wait([t EXCEPT !.state = "done"])
    ELSE IF /\ <<session_id>> \notin DOMAIN t.secrets
            /\ <<client_random>> \notin DOMAIN t.secrets
            /\ <<client_random, server_random>> \notin DOMAIN t.secrets
    THEN wait([t EXCEPT !.state = "done"])
    ELSE IF init_cipher(sh.supported, "master_secret") = None
    THEN advance([t EXCEPT !.state = "done"])
    ELSE advance([t EXCEPT !.state = "client",
                           !.tls = init_cipher(sh.supported, "master_secret")])

\* TLSStream.state_init, "self.server_hello = self.parse_record(...)": t is
\* the stream after self.recv.pop(0), sh what parse_record made of it.
init_server_hello(t, ch, sh) ==
    IF sh.exc # NoErr THEN wait(raise(t, sh.exc))
    ELSE init_secret([t EXCEPT !.server_hello = Some(sh)], ch, sh)

\* TLSStream.state_init, "self.client_hello = self.parse_record(...)": t is
\* the stream after self.sent.pop(0), ch what parse_record made of it.
init_client_hello(t, ch) ==
    IF ch.exc # NoErr THEN wait(raise(t, ch.exc))
    ELSE init_server_hello([t EXCEPT !.client_hello = Some(ch),
                                     !.recv = Tail(@)],
                           ch, parse_record(Head(t.recv)))

\* TLSStream.state_init
state_init(t, s, ts) ==
    IF t.sent = <<>> \/ t.recv = <<>> THEN wait(t)
    ELSE init_client_hello([t EXCEPT !.sent = Tail(@)],
                           parse_record(Head(t.sent)))

\* TLSStream.state_client
RECURSIVE state_client(_, _, _)
state_client(t, s, ts) ==
    IF t.sent = <<>> THEN wait(t)
    ELSE IF Head(t.sent).type = 20
    THEN advance([t EXCEPT !.sent = Tail(@), !.state = "server"])
    ELSE state_client([t EXCEPT !.sent = Tail(@)], s, ts)

\* TLSStream.state_server
RECURSIVE state_server(_, _, _)
state_server(t, s, ts) ==
    IF t.recv = <<>> THEN wait(t)
    ELSE IF Head(t.recv).type = 20
    THEN advance([t EXCEPT !.recv = Tail(@), !.state = "decrypt"])
    ELSE state_server([t EXCEPT !.recv = Tail(@)], s, ts)

\* TLSStream.state_decrypt, the client's record: t is the stream after
\* self.sent.pop(0), r what decrypt_client gave.
decrypt_first_client(t, r) ==
    IF r.exc # NoErr THEN wait(raise(t, r.exc))
    ELSE advance([t EXCEPT !.state = "stream"])

\* TLSStream.state_decrypt, the server's record: t is the stream after
\* self.recv.pop(0), r what decrypt_server gave.
decrypt_first_server(t, r) ==
    IF r.exc # NoErr THEN wait(raise(t, r.exc))
    ELSE decrypt_first_client(
             [t EXCEPT !.sent = Tail(@)],
             decrypt_client(t.tls, Head(t.sent).type, Head(t.sent).data))

\* A variant of state_decrypt that goes on to "stream" with the first
\* record after each ChangeCipherSpec still in its queue (the behaviour C25
\* excludes).
state_decrypt_keep(t, s, ts) ==
    IF t.sent = <<>> \/ t.recv = <<>> THEN wait(t)
    ELSE advance([t EXCEPT !.state = "stream"])

\* TLSStream.state_decrypt
state_decrypt(t, s, ts) ==
    IF t.sent = <<>> \/ t.recv = <<>> THEN wait(t)
    ELSE decrypt_first_server(
             [t EXCEPT !.recv = Tail(@)],
             decrypt_server(t.tls, Head(t.recv).type, Head(t.recv).data))

\* b"".join(list of byte strings)
RECURSIVE concat(_)
concat(parts) ==
    IF parts = <<>> THEN <<>> ELSE Head(parts) \o concat(Tail(parts))

\* TLSStream.state_stream, "while self.sent": the plaintexts appended to
\* the list sent, the records left in the queue and the exception that
\* ended the loop.  r is what decrypt_client gave for the record popped.
RECURSIVE drain_sent(_, _, _)
sent_record(tls, queue, acc, r) ==
    IF r.exc # NoErr THEN [plain |-> acc, queue |-> queue, exc |-> r.exc]
    ELSE drain_sent(tls, queue, IF r.data # <<>> THEN Append(acc, r.data)
                                ELSE acc)

drain_sent(tls, queue, acc) ==
    IF queue = <<>> THEN [plain |-> acc, queue |-> queue, exc |-> NoErr]
    ELSE sent_record(tls, Tail(queue), acc,
                     decrypt_client(tls, Head(queue).type, Head(queue).data))

\* TLSStream.state_stream, "while self.recv": a TLSProtocolException is
\* logged and the loop goes on.
RECURSIVE drain_recv(_, _, _)
recv_record(tls, queue, acc, r) ==
    drain_recv(tls, queue,
               IF r.exc = NoErr /\ r.data # <<>> THEN Append(acc, r.data)
               ELSE acc)

drain_recv(tls, queue, acc) ==
    IF queue = <<>> THEN [plain |-> acc, queue |-> queue, exc |-> NoErr]
    ELSE recv_record(tls, Tail(queue), acc,
                     decrypt_server(tls, Head(queue).type, Head(queue).data))

\* TLSInfo(...): the fingerprints are those of the two hellos.
TLSInfo(t) ==
    Some([client_hello |-> t.client_hello[1],
          server_hello |-> t.server_hello[1]])

\* TLSStream.state_stream, from "if not isinstance(sent[0], bytes)" on:
\* sent[0] and recv[0] raise IndexError on an empty list.
stream_handle(t, s, ts, sent, recv) ==
    IF sent = <<>> \/ recv = <<>> THEN wait(raise(t, "IndexError"))
    ELSE advance([t EXCEPT !.out = Append(@,
                     HandleCall(s, ts, "tls", concat(sent), concat(recv),
                                TLSInfo(t)))])

\* TLSStream.state_stream, the two loops: ds is what the first made of
\* self.sent; the second is not reached when that raised.
stream_recv(t, s, ts, ds) ==
    IF ds.exc # NoErr THEN wait(raise([t EXCEPT !.sent = ds.queue], ds.exc))
    ELSE stream_handle([t EXCEPT !.sent = <<>>, !.recv = <<>>], s, ts,
                       ds.plain, drain_recv(t.tls, t.recv, <<>>).plain)

\* TLSStream.state_stream
state_stream(t, s, ts) ==
    IF t.sent # <<>> /\ t.recv # <<>>
    THEN stream_recv(t, s, ts, drain_sent(t.tls, t.sent, <<>>))
    ELSE wait(t)

\* TLSStream.state_done
state_done(t, s, ts) == wait([t EXCEPT !.sent = <<>>, !.recv = <<>>])

\* TLSStream.states
TLSStream_states(t, s, ts) ==
    CASE t.state = "init" -> state_init(t, s, ts)
      [] t.state = "client" -> state_client(t, s, ts)
      [] t.state = "server" -> state_server(t, s, ts)
      [] t.state = "decrypt" -> state_decrypt(t, s, ts)
      [] t.state = "stream" -> state_stream(t, s, ts)
      [] t.state = "done" -> state_done(t, s, ts)

\* TLSStream.handle, "while self.states[self.state](self, s, ts): pass"
RECURSIVE keep_going(_, _, _)
while_states(r, s, ts) ==
    IF r.t.err # NoErr \/ ~r.again THEN r.t ELSE keep_going(r.t, s, ts)

keep_going(t, s, ts) == while_states(TLSStream_states(t, s, ts), s, ts)

\* TLSStream.handle, "except dpkt.ssl.SSL3Exception": the pair goes to the
\* parent as it came, with five arguments.
forward(t, s, ts, protocol, sent, recv) ==
    [t EXCEPT !.out = Append(@, HandleCall(s, ts, protocol, sent, recv, None))]

\* TLSStream.handle, "Parse received TLS records.": t has self.raw_recv +=
\* recv done, f is tls_multi_factory(recv).
handle_recv(t, s, ts, protocol, sent, recv, f) ==
    IF f.bad THEN forward(t, s, ts, protocol, sent, recv)
    ELSE keep_going([t EXCEPT !.raw_recv = drop(@, f.length),
                              !.recv = @ \o f.records], s, ts)

\* TLSStream.handle, "Parse sent TLS records.": t has self.raw_sent += sent
\* done, f is tls_multi_factory(sent).
handle_sent(t, s, ts, protocol, sent, recv, f) ==
    IF f.bad THEN forward(t, s, ts, protocol, sent, recv)
    ELSE handle_recv([t EXCEPT !.raw_sent = drop(@, f.length),
                               !.sent = @ \o f.records,
                               !.raw_recv = @ \o recv],
                     s, ts, protocol, sent, recv, tls_multi_factory(recv))

\* TLSStream.handle: the stream after the call; out holds the calls it made
\* of parent.handle(), err the exception that left it.
TLSStream_handle(t0, s, ts, protocol, sent, recv, tlsinfo) ==
    IF protocol # "tcp"
    THEN [t0 EXCEPT !.out = <<HandleCall(s, ts, protocol, sent, recv,
                                         tlsinfo)>>,
                    !.err = NoErr]
    ELSE handle_sent([t0 EXCEPT !.out = <<>>, !.err = NoErr,
                                !.raw_sent = @ \o sent],
                     s, ts, protocol, sent, recv, tls_multi_factory(sent))

(***************************************************************************)
(* The TLSStream of one flow under the PcapReader.  The TCPStream below    *)
(* hands it, pair by pair, the bytes the client and the server put on the  *)
(* wire: a pair is the next bytes of each side, cut at a record boundary   *)
(* or inside a record.  The calls the TLSStream makes of parent.handle()   *)
(* reach the reader, whose generator yields them.                          *)
(***************************************************************************)
MaxApp == 2     \* protected records a side sends after its Finished
MaxPairs == 3   \* pairs the TCPStream hands to the TLSStream
MaxSplit == 1   \* of them, pairs that end inside a record

\* A record on the wire (TLS 1.0, body shorter than 256 bytes).
Rec(type, body) == <<type, 3, 1, 0, Len(body)>> \o body

\* The ends of the records a side sends, from offset i on; bytes that are
\* no record end where the side's bytes end.
RECURSIVE Ends(_, _)
Ends(buf, i) ==
    IF i >= Len(buf) THEN {}
    ELSE IF tls_frames(SubSeq(buf, i + 1, Len(buf)), 0, <<>>).length = 0
    THEN {Len(buf)}
    ELSE {i + 5 + buf[i + 5]} \cup Ends(buf, i + 5 + buf[i + 5])

\* Where a pair may end in a side's bytes: at the end of a record, or
\* after the header of the next one.
Cuts(buf) ==
    {j \in 0..Len(buf) : \E e \in Ends(buf, 0) \cup {0} : j \in {e, e + 5}}

\* The protected records of one side: seal is the side's seal, base the
\* plaintext byte before its first.  The k-th record holds the plaintext
\* byte base + k, or is damaged.
Damaged == {BAD_MAC, BAD_LENGTH, PROTOCOL_ERROR, EMPTY_PLAIN}

AppRecords(seal, base) ==
    UNION {{a \in [1..n -> (seal + base + 1)..(seal + base + n) \cup Damaged] :
                \A k \in 1..n : a[k] = seal + base + k \/ a[k] \in Damaged} :
               n \in 0..MaxApp}

Sound(apps) == \A k \in 1..Len(apps) : apps[k] \notin Damaged

RECURSIVE AppBytes(_)
AppBytes(apps) ==
    IF apps = <<>> THEN <<>>
    ELSE Rec(23, <<Head(apps)>>) \o AppBytes(Tail(apps))

\* A side's bytes: its hello (or what stands in its place), its
\* ChangeCipherSpec, its Finished and its protected records.
Side(first, seal, apps) ==
    Rec(22, <<first>>) \o Rec(20, <<1>>) \o Rec(22, <<seal + HS_FINISHED>>)
        \o AppBytes(apps)

\* Bytes that are no TLS record: "GET /\n".
NotTls == <<71, 69, 84, 32, 47, 10>>

\* The secrets file: empty, or holding the flow's master secret under one
\* of the keys state_init looks up.
NoSecrets == <<>>
Secrets ==
    {(<<session_id>> :> "master_secret"),
     (<<client_random>> :> "master_secret"),
     (<<client_random, server_random>> :> "master_secret")}

Flow(secrets, c, s) == [secrets |-> secrets, c |-> c, s |-> s]

\* Flows that decrypt without error: every number of protected records on
\* each side, the secret found under each key for the longest.
SoundFlows ==
    {Flow((<<session_id>> :> "master_secret"),
          Side(HS_CLIENT_HELLO, ClientSeal, ca),
          Side(HS_SERVER_HELLO, ServerSeal, sa)) :
         ca \in {a \in AppRecords(ClientSeal, 0) : Sound(a)},
         sa \in {a \in AppRecords(ServerSeal, 10) : Sound(a)}}
    \cup {Flow(secrets,
               Side(HS_CLIENT_HELLO, ClientSeal, <<ClientSeal + 1>>),
               Side(HS_SERVER_HELLO, ServerSeal, <<ServerSeal + 11>>)) :
              secrets \in Secrets}

\* Flows with damaged records: every outcome of one record a side, and a
\* damaged record next to a sound one.
DamagedFlows ==
    {Flow((<<client_random>> :> "master_secret"),
          Side(HS_CLIENT_HELLO, ClientSeal, ca),
          Side(HS_SERVER_HELLO, ServerSeal, sa)) :
         ca \in {a \in AppRecords(ClientSeal, 0) : Len(a) = 1},
         sa \in {a \in AppRecords(ServerSeal, 10) : Len(a) = 1}}
    \cup {Flow((<<client_random>> :> "master_secret"),
               Side(HS_CLIENT_HELLO, ClientSeal, ca),
               Side(HS_SERVER_HELLO, ServerSeal, <<ServerSeal + 11>>)) :
              ca \in {a \in AppRecords(ClientSeal, 0) :
                          Len(a) = MaxApp /\ ~Sound(a)
                              /\ \E k \in 1..Len(a) : a[k] \notin Damaged}}
    \cup {Flow((<<client_random>> :> "master_secret"),
               Side(HS_CLIENT_HELLO, ClientSeal, <<ClientSeal + 1>>),
               Side(HS_SERVER_HELLO, ServerSeal, sa)) :
              sa \in {a \in AppRecords(ServerSeal, 10) :
                          Len(a) = MaxApp /\ ~Sound(a)
                              /\ \E k \in 1..Len(a) : a[k] \notin Damaged}}

\* Flows the TLSStream gives up on: no secret, a cipher suite that is not
\* supported, a first record that is no hello.
SkippedFlows ==
    {Flow(NoSecrets, Side(HS_CLIENT_HELLO, ClientSeal, <<ClientSeal + 1>>),
          Side(HS_SERVER_HELLO, ServerSeal, <<ServerSeal + 11>>)),
     Flow((<<session_id>> :> "master_secret"),
          Side(HS_CLIENT_HELLO, ClientSeal, <<ClientSeal + 1>>),
          Side(HS_SERVER_HELLO_UNSUPPORTED, ServerSeal, <<ServerSeal + 11>>)),
     Flow((<<session_id>> :> "master_secret"),
          Side(HS_CERTIFICATE, ClientSeal, <<ClientSeal + 1>>),
          Side(HS_SERVER_HELLO, ServerSeal, <<ServerSeal + 11>>)),
     Flow((<<session_id>> :> "master_secret"),
          Side(HS_CLIENT_HELLO, ClientSeal, <<ClientSeal + 1>>),
          Side(HS_CERTIFICATE, ServerSeal, <<ServerSeal + 11>>))}

\* Flows with bytes that are no TLS record, from the start or after the
\* hellos.
PlainFlows ==
    {Flow(NoSecrets, NotTls, NotTls),
     Flow(NoSecrets, NotTls, Side(HS_SERVER_HELLO, ServerSeal, <<>>)),
     Flow(NoSecrets, Rec(22, <<HS_CLIENT_HELLO>>) \o NotTls,
          Rec(22, <<HS_SERVER_HELLO>>) \o NotTls),
     Flow((<<session_id>> :> "master_secret"),
          Rec(22, <<HS_CLIENT_HELLO>>) \o NotTls,
          Side(HS_SERVER_HELLO, ServerSeal, <<>>))}

Flows == SoundFlows \cup DamagedFlows \cup SkippedFlows \cup PlainFlows

\* The wire before the first pair: ci and si count the bytes handed on,
\* split the pairs that ended inside a record.
Wire(c, s) ==
    [c |-> c, s |-> s, ci |-> 0, si |-> 0, split |-> 0,
     ccuts |-> Cuts(c), scuts |-> Cuts(s),
     cends |-> Ends(c, 0) \cup {0}, sends |-> Ends(s, 0) \cup {0}]

Splits(w, jc, js) ==
    IF jc \in w.cends /\ js \in w.sends THEN 0 ELSE 1

TlsInit ==
    /\ \E f \in Flows :
           /\ tlsStream = Some(TLSStream_init("reader", f.secrets))
           /\ wire = Wire(f.c, f.s)
    /\ streamer = TCPPacketStreamer_init(Handlers)
    /\ reader = PcapReader_init
    /\ pc = "loop"
    /\ nread = 0
    /\ yielded = <<>>
    /\ surfaced = None
    /\ last = NoPacket
    /\ FlowIdle

\* The pair of the client's bytes up to jc and the server's up to js.
PairSent(w, jc) == SubSeq(w.c, w.ci + 1, jc)
PairRecv(w, js) == SubSeq(w.s, w.si + 1, js)

\* handler.handle(s, ts, "tcp", sent, recv), called by the TCPStream while
\* the reader processes a segment: t is the TLSStream after the call.
Delivered(t, ts, jc, js) ==
    LET x == tcp_except(handle_all(reader, t.out), ts, None, t.err)
    IN /\ tlsStream' = Some(t)
       /\ wire' = [wire EXCEPT !.ci = jc, !.si = js,
                               !.split = @ + Splits(wire, jc, js)]
       /\ nread' = ts
       /\ reader' = x.reader
       /\ surfaced' = x.surfaced
       /\ pc' = IF x.surfaced = None THEN pc ELSE "raised"
       /\ last' = [kind |-> "tcp", ts |-> ts, err |-> t.err,
                   state |-> tlsStream[1].state, deadhost |-> FALSE]
       /\ UNCHANGED <<streamer, yielded>>
       /\ UNCHANGED flowVars

Deliver(jc, js) ==
    /\ pc = "loop" /\ reader.values = <<>>
    /\ jc >= wire.ci /\ js >= wire.si
    /\ jc + js > wire.ci + wire.si
    /\ nread < MaxPairs
    /\ wire.split + Splits(wire, jc, js) <= MaxSplit
    /\ Delivered(TLSStream_handle(tlsStream[1], FlowKey, nread + 1, "tcp",
                                  PairSent(wire, jc), PairRecv(wire, js),
                                  None),
                 nread + 1, jc, js)

TlsNext ==
    \/ \E jc \in wire.ccuts, js \in wire.scuts : Deliver(jc, js)
    \/ Yield
    \/ EndOfPcap
    \/ Return

SpecTls == TlsInit /\ [][TlsNext]_vars

\* C12 (as claimed): once the TLSStream is in state "done", a pair handed
\* to handle() makes no call of parent.handle(), whatever its bytes, and
\* leaves no record in the queues.
C12_DoneIsSilent ==
    [][(tlsStream[1].state = "done" /\ nread' # nread) =>
           /\ tlsStream'[1].out = <<>>
           /\ tlsStream'[1].sent = <<>>
           /\ tlsStream'[1].recv = <<>>]_vars

\* The bytes of a side handed on so far that follow their last whole
\* record.
TailOf(buf) == drop(buf, tls_multi_factory(buf).length)

\* C13 (as claimed): after every handle(), raw_sent and raw_recv are the
\* bytes handed on so far in their direction that follow the last whole
\* record, so a record split over two pairs leaves the tail when its last
\* byte arrives.  Stated for flows that hold TLS records only.
C13_RawTail ==
    (/\ tlsStream # None
     /\ ~tls_multi_factory(wire.c).bad
     /\ ~tls_multi_factory(wire.s).bad) =>
        /\ tlsStream[1].raw_sent = TailOf(SubSeq(wire.c, 1, wire.ci))
        /\ tlsStream[1].raw_recv = TailOf(SubSeq(wire.s, 1, wire.si))

\* The pair handed on in this step wakes state_stream: the TLSStream is in
\* state "stream", the pair frames, and with its records both queues hold
\* a record.
StreamActivated ==
    /\ nread' # nread
    /\ tlsStream[1].state = "stream"
    /\ ~tls_multi_factory(PairSent(wire, wire'.ci)).bad
    /\ ~tls_multi_factory(PairRecv(wire, wire'.si)).bad
    /\ tlsStream[1].sent
           \o tls_multi_factory(PairSent(wire, wire'.ci)).records # <<>>
    /\ tlsStream[1].recv
           \o tls_multi_factory(PairRecv(wire, wire'.si)).records # <<>>

\* C14 (as claimed): whatever decrypting each record gives (plaintext, bad
\* MAC, bad length, protocol exception, empty plaintext), an activation of
\* state_stream ends without an exception leaving handle() and makes one
\* "tls" call of parent.handle().
C14_DecryptNeverHalts ==
    [][StreamActivated =>
           /\ tlsStream'[1].err = NoErr
           /\ Len(tlsStream'[1].out) = 1
           /\ tlsStream'[1].out[1].protocol = "tls"]_vars

\* Framing fails for the pair handed on in this step.
FramingFails ==
    \/ tls_multi_factory(PairSent(wire, wire'.ci)).bad
    \/ tls_multi_factory(PairRecv(wire, wire'.si)).bad

\* A pair of this flow was forwarded before: only a forwarded pair reaches
\* the reader as a "tcp" event.
Forwarded ==
    \/ \E k \in 1..Len(yielded) : yielded[k][3] = "tcp"
    \/ \E k \in 1..Len(reader.values) : reader.values[k][3] = "tcp"

\* C15 (as claimed): a pair whose framing fails is forwarded once as it
\* came, tagged "tcp", and leaves the record queues and the tail buffers
\* as they were; and so is every pair after it.
C15_Passthrough ==
    [][(nread' # nread /\ (FramingFails \/ Forwarded)) =>
           /\ tlsStream'[1].out =
                  <<HandleCall(FlowKey, nread', "tcp",
                               PairSent(wire, wire'.ci),
                               PairRecv(wire, wire'.si), None)>>
           /\ tlsStream'[1].sent = tlsStream[1].sent
           /\ tlsStream'[1].recv = tlsStream[1].recv
           /\ tlsStream'[1].raw_sent = tlsStream[1].raw_sent
           /\ tlsStream'[1].raw_recv = tlsStream[1].raw_recv]_vars

\* The plaintext of the records a side sends after its Finished, in order.
RECURSIVE PlainOf(_, _)
PlainOf(records, seal) ==
    IF records = <<>> THEN <<>>
    ELSE decrypt(seal, Head(records).type, Head(records).data).data
             \o PlainOf(Tail(records), seal)

AppPlain(buf, seal) ==
    PlainOf(SubSeq(tls_multi_factory(buf).records, 4,
                   Len(tls_multi_factory(buf).records)), seal)

\* The plaintext of the "tls" events among the yielded values: field 4 is
\* sent, field 5 recv.
RECURSIVE TlsPlain(_, _)
TlsPlain(evs, field) ==
    IF evs = <<>> THEN <<>>
    ELSE (IF Head(evs)[3] = "tls" THEN Head(evs)[field] ELSE <<>>)
             \o TlsPlain(Tail(evs), field)

\* The flow decrypts without error and has been handed on whole, every
\* pair ending at a record boundary, and the generator has returned.
SoundAndDone ==
    /\ tlsStream # None /\ pc = "done"
    /\ \E f \in SoundFlows :
           tlsStream[1].secrets = f.secrets /\ wire.c = f.c /\ wire.s = f.s
    /\ wire.ci = Len(wire.c) /\ wire.si = Len(wire.s)
    /\ wire.split = 0

\* C16 (as claimed): for a flow that decrypts without error, once it has
\* been handed on whole the plaintext of the "tls" events is, for each
\* direction, the plaintext of the records the side sent after its
\* handshake, in order; no record is left in a queue.
C16_TlsRoundTrip ==
    SoundAndDone =>
        /\ TlsPlain(yielded, 4) = AppPlain(wire.c, ClientSeal)
        /\ TlsPlain(yielded, 5) = AppPlain(wire.s, ServerSeal)
        /\ tlsStream[1].sent = <<>> /\ tlsStream[1].recv = <<>>


(***************************************************************************)
(* The reassembler's sequence counters and buffers, over the captures of   *)
(* arbitrary segments.                                                     *)
(***************************************************************************)

\* b, a new value of cli or srv, is not below a, the value before it (None
\* compares with nothing).
NotBelow(a, b) == (a # None /\ b # None) => b[1] >= a[1]

\* C17 (as claimed): cli_next_seq and srv_next_seq only advance: whatever
\* segment a reassembler processes, a value it assigns to cli (to srv) is
\* greater than or equal to the value cli (srv) had before.
C17_SeqMonotonic ==
    [][\A k \in DOMAIN streamer.streams \cap DOMAIN streamer'.streams :
           /\ NotBelow(streamer.streams[k].cli, streamer'.streams[k].cli)
           /\ NotBelow(streamer.streams[k].srv, streamer'.streams[k].srv)]_vars


(***************************************************************************)
(* A capture that holds the segments of one exchange in any order: the     *)
(* handshake, a server segment, the client's acknowledgement of it, a      *)
(* client segment sent after that, and the server's acknowledgement.       *)
(***************************************************************************)
Exchange ==
    {[tcp |-> Segment(1, 0, {TH_SYN}, <<>>), to_server |-> TRUE],
     [tcp |-> Segment(100, 2, {TH_SYN, TH_ACK}, <<>>), to_server |-> FALSE],
     [tcp |-> Segment(2, 101, {TH_ACK}, <<>>), to_server |-> TRUE],
     [tcp |-> Segment(101, 2, {TH_PUSH, TH_ACK}, <<21>>), to_server |-> FALSE],
     [tcp |-> Segment(2, 102, {TH_ACK}, <<>>), to_server |-> TRUE],
     [tcp |-> Segment(2, 102, {TH_PUSH, TH_ACK}, <<11>>), to_server |-> TRUE],
     [tcp |-> Segment(102, 3, {TH_ACK}, <<>>), to_server |-> FALSE]}

\* for ts, packet in self.pcap: the next segment of the capture, one that
\* has not arrived yet, goes through TCPStream.process.
Arrive(x) ==
    /\ \A i \in 1..Len(trace) :
           trace[i].tcp # x.tcp \/ trace[i].to_server # x.to_server
    /\ Feed(x.tcp, x.to_server)
    /\ UNCHANGED env
    /\ UNCHANGED pipeVars
    /\ UNCHANGED tlsVars

ShuffleNext == \E x \in Exchange : Arrive(x)

SpecShuffle == FlowInit /\ [][ShuffleNext]_vars

\* C18 (as claimed): sent and recv are never both non-empty and growing:
\* while recv holds bytes, a segment that emits no pair appends nothing to
\* sent, so the client bytes of a pair are all released before its server
\* bytes.
C18_SentBeforeRecv ==
    [][(flow.recv # <<>> /\ flow'.out = <<>>) => flow'.sent = flow.sent]_vars


(***************************************************************************)
(* Flow demultiplexing: TCPPacketStreamer.process on the captures of       *)
(* arbitrary segments.                                                     *)
(***************************************************************************)

\* The connection of packet p has a flow entry in t, under the packet's
\* forward key or under its reverse key.
Known(t, p) ==
    \/ stream(p, FALSE) \in DOMAIN t.streams
    \/ stream(p, TRUE) \in DOMAIN t.streams

\* What the claim says of one segment p that takes the streamer from t to
\* r.t: entries stay; an entry is added only by a bare SYN on an unknown
\* forward key; a segment of a known connection adds none and goes to the
\* existing reassembler, to_server by the key that matched.
Demuxed(t, p, r) ==
    /\ DOMAIN t.streams \subseteq DOMAIN r.t.streams
    /\ DOMAIN r.t.streams # DOMAIN t.streams =>
           /\ p.tcp[1].flags = {TH_SYN}
           /\ stream(p, FALSE) \notin DOMAIN t.streams
    /\ Known(t, p) =>
           /\ DOMAIN r.t.streams = DOMAIN t.streams
           /\ r.to_server = (stream(p, FALSE) \in DOMAIN t.streams)
           /\ r.routed = Some(IF stream(p, FALSE) \in DOMAIN t.streams
                              THEN stream(p, FALSE) ELSE stream(p, TRUE))

\* C19 (as claimed): a reassembler is created only by a bare SYN whose
\* forward key is unknown, flow entries are never removed, and a segment of
\* a connection that has a flow entry, whatever its direction and flags, is
\* routed to the existing reassembler and creates no second one.
C19_OneReassemblerPerConnection ==
    [][\A p \in Packets(nread + 1) :
           ReadTcp(p) => Demuxed(streamer, p, Processed(p))]_vars


(***************************************************************************)
(* Handler selection: captures of bare SYNs between ports with and without *)
(* a registered handler, under every table of handlers for ports 80 and    *)
(* 443 and "generic".                                                      *)
(***************************************************************************)
Ports == {80, 443, 1025}

PortTables ==
    {[q \in S |-> IF q = 80 THEN "http" ELSE "https"] : S \in SUBSET {80, 443}}

HandlerTables ==
    {[ports |-> f, generic |-> g] :
        f \in PortTables, g \in {None, Some("generic")}}

\* The flows the capture may open: a bare SYN from any port of one host to
\* any port of the other.
Syns ==
    {[src |-> <<"10.0.0.1", a>>, dst |-> <<"10.0.0.2", b>>,
      tcp |-> Some(Segment(1, 0, {TH_SYN}, <<>>))] : a \in Ports, b \in Ports}

DemuxInit ==
    /\ \E h \in HandlerTables : streamer = TCPPacketStreamer_init(h)
    /\ reader = PcapReader_init
    /\ pc = "loop"
    /\ nread = 0
    /\ yielded = <<>>
    /\ surfaced = None
    /\ last = NoPacket
    /\ FlowIdle
    /\ TlsIdle

DemuxNext ==
    \/ \E packet \in Syns : ReadTcp(packet)
    \/ EndOfPcap
    \/ Return

SpecDemux == DemuxInit /\ [][DemuxNext]_vars

\* The handler of table h found by looking up port p1, then port p2, then
\* "generic".
Chosen(h, p1, p2) ==
    IF p1 \in DOMAIN h.ports THEN h.ports[p1]
    ELSE IF p2 \in DOMAIN h.ports THEN h.ports[p2]
    ELSE h.generic[1]

\* Some handler is registered for a flow with key k.
Registered(h, k) ==
    k[2] \in DOMAIN h.ports \/ k[4] \in DOMAIN h.ports \/ h.generic # None

\* C20 (as claimed): the handler of a new flow is the one registered for
\* the destination port if there is one, otherwise the one registered for
\* the source port, otherwise the "generic" handler; with both ports
\* registered the destination port's handler is chosen.
C20_DstPortFirst ==
    \A k \in DOMAIN streamer.streams :
        Registered(streamer.handlers, k) =>
            streamer.streams[k].parent = Chosen(streamer.handlers, k[4], k[2])

\* C20 (amended): the handler of a new flow depends on the port numbers
\* alone and is the one registered for the source port if there is one,
\* otherwise the one registered for the destination port, otherwise the
\* "generic" handler; with both ports registered the source port's handler
\* is chosen.
C20_SrcPortFirst ==
    \A k \in DOMAIN streamer.streams :
        Registered(streamer.handlers, k) =>
            streamer.streams[k].parent = Chosen(streamer.handlers, k[2], k[4])

\* A flow from port 80 to port 443 with a handler registered for each has
\* been opened, next to a flow that only "generic" serves.
C20_Witness ==
    /\ <<"10.0.0.1", 80, "10.0.0.2", 443>> \in DOMAIN streamer.streams
    /\ <<"10.0.0.1", 1025, "10.0.0.2", 1025>> \in DOMAIN streamer.streams
    /\ DOMAIN streamer.handlers.ports = {80, 443}
    /\ streamer.handlers.generic # None


(***************************************************************************)
(* Retransmissions: a flow of SpecFlow with a second, longer copy of one   *)
(* of its data segments.                                                   *)
(***************************************************************************)

\* The reassembler after the segments of tr.
RECURSIVE StateAt(_, _)
StateAt(st, tr) ==
    IF tr = <<>> THEN st
    ELSE StateAt(TCPStream_process(st, Head(tr).ts, Head(tr).tcp,
                                   Head(tr).to_server), Tail(tr))

Before(tr, j) == StateAt(TCPStream_init("forward", FlowKey), SubSeq(tr, 1, j))

\* Segment x again, with one more byte of payload, arriving at time ts.
Longer(x, ts) == [x EXCEPT !.ts = ts, !.tcp.data = @ \o <<99>>]

\* tr with the longer copy of its i-th segment arriving just after its j-th.
WithLonger(tr, i, j) ==
    SubSeq(tr, 1, j) \o <<Longer(tr[i], tr[j].ts)>>
        \o SubSeq(tr, j + 1, Len(tr))

\* The test of state_conn recognises tcp as a retransmission: "(tcp.seq,
\* tcp.ack) in self.origins or (tcp_seq, tcp.ack) in self.packets", in conn.
Recognised(st, tcp) ==
    /\ st.state = "conn"
    /\ \/ <<tcp.seq, tcp.ack>> \in DOMAIN st.origins
       \/ <<tcp.seq + Len(tcp.data), tcp.ack>> \in DOMAIN st.packets

\* Segment x leaves pending and origins of st as they are.
KeepsStored(st, x) ==
    /\ TCPStream_process(st, x.ts, x.tcp, x.to_server).packets = st.packets
    /\ TCPStream_process(st, x.ts, x.tcp, x.to_server).origins = st.origins

\* The longer copy of segment i of the flow, arriving after segment j, is
\* recognised as a retransmission.
Retransmitted(i, j) ==
    /\ IsData(trace[i])
    /\ Recognised(Before(trace, j), Longer(trace[i], trace[j].ts).tcp)

RoutedIn(t, p, s) ==
    /\ Processed(p).routed # None
    /\ Processed(p).routed[1] \in DOMAIN t.streams
    /\ t.streams[Processed(p).routed[1]].state = s

\* The reassembler packet p was routed to, after p.
RoutedAfter(p) == Processed(p).t.streams[Processed(p).routed[1]]

\* C22 (as claimed): a segment with RST processed in conn moves the
\* reassembler to conn_closed, and after every segment processed in
\* conn_closed everything in flight has been flushed: pending is empty.
C22_RstFlushesAll ==
    [][\A p \in Packets(nread + 1) :
           ReadTcp(p) =>
               /\ (RoutedIn(streamer, p, "conn") /\ TH_RST \in p.tcp[1].flags)
                      => RoutedAfter(p).state = "conn_closed"
               /\ RoutedIn(streamer, p, "conn_closed")
                      => RoutedAfter(p).packets = <<>>]_vars


(***************************************************************************)
(* FIN teardown, over the well-formed flows.                               *)
(***************************************************************************)

\* The next-seq of the peer of segment x's sender.
PeerNext(st, x) == IF x.to_server THEN st.srv ELSE st.cli

\* Both sides have sent FIN and each FIN has been acknowledged.
BothFinsAcked ==
    /\ env.fin.c /\ env.fin.s
    /\ env.acked.c = env.nxt.c /\ env.acked.s = env.nxt.s

\* Segment x acknowledges the peer's FIN: it arrives in conn_finish with
\* ACK and its ack is the peer's next-seq.
AcksPeerFin(st, x) ==
    /\ st.state = "conn_finish"
    /\ TH_ACK \in x.tcp.flags
    /\ PeerNext(st, x) = Some(x.tcp.ack)

\* A next-seq that is None after a FIN stays None.
StaysNone(a, b) ==
    /\ (a.state = "conn_finish" /\ a.cli = None) => b.cli = None
    /\ (a.state = "conn_finish" /\ a.srv = None) => b.srv = None

\* C23 (as claimed): in conn_finish a segment with ACK whose ack is the
\* peer's next-seq is accepted and leaves that next-seq None; once both
\* FINs have been sent and acknowledged cli and srv are both None; and a
\* next-seq that has become None is not set to a value again.
C23_FinTeardown ==
    [][/\ (Len(trace') > Len(trace)
              /\ AcksPeerFin(flow, trace'[Len(trace')]))
          => /\ flow'.err = NoErr
             /\ PeerNext(flow', trace'[Len(trace')]) = None
       /\ BothFinsAcked' => (flow'.cli = None /\ flow'.srv = None)
       /\ StaysNone(flow, flow')]_vars


\* What the claim says of a segment that a reassembler in init_syn
\* processes: tcp is the segment, r what TCPPacketStreamer.process made of
\* it, after the reassembler afterwards.
InitSynAsClaimed(tcp, r, after) ==
    IF TH_RST \in tcp.flags
    THEN r.err = NoErr /\ after.state = "init_syn"
    ELSE IF r.to_server /\ tcp.flags = {TH_SYN} /\ tcp.data = <<>>
    THEN /\ r.err = NoErr /\ after.state = "init_syn_ack"
         /\ after.cli = Some(tcp.seq)
    ELSE /\ r.err \in {"InvalidTcpPacketOrder", "UnexpectedTcpData"}
         /\ after.state = "init_syn"

\* C24 (as claimed): in init_syn only a payload-free SYN from the client
\* moves the reassembler to init_syn_ack, with cli = seq; a segment with
\* RST is ignored; every other segment is reported as
\* InvalidTcpPacketOrder or UnexpectedTcpData and leaves the state
\* init_syn.
C24_InitSyn ==
    [][\A p \in Packets(nread + 1) :
           (ReadTcp(p) /\ StateBefore(streamer, p) = "init_syn") =>
               InitSynAsClaimed(p.tcp[1], Processed(p), RoutedAfter(p))]_vars


(***************************************************************************)
(* The order of the TLSStream's states and what its "tls" events hold.     *)
(***************************************************************************)

\* The position of a state on the way from "init" to "stream".
Rank(state) ==
    CASE state = "init" -> 1
      [] state = "client" -> 2
      [] state = "server" -> 3
      [] state = "decrypt" -> 4
      [] state = "stream" -> 5
      [] OTHER -> 0

\* From state a the TLSStream may be in state b after a pair.
Forward(a, b) ==
    \/ a = b
    \/ Rank(a) > 0 /\ Rank(b) > Rank(a)
    \/ a = "init" /\ b = "done"

\* The "tls" events handed to the reader so far.
TlsEvents(evs) == SelectSeq(evs, LAMBDA e : e[3] = "tls")

\* Every byte of plaintext is one that a record after the side's Finished
\* holds: never the plaintext of a Finished, nor a byte of a record that
\* precedes the ChangeCipherSpec.
OnlyAppPlain(bytes, base) ==
    \A k \in 1..Len(bytes) : bytes[k] \in (base + 1)..(base + MaxApp)

\* C25: the state of a TLSStream only moves forward along init, client,
\* server, decrypt, stream, or from init to done, and never leaves stream
\* or done; a "tls" event is emitted only in stream; and the records up to
\* the ChangeCipherSpec of a side and the first record after it contribute
\* nothing to the emitted plaintext.
C25_KeyInstallOrder ==
    [][/\ Forward(tlsStream[1].state, tlsStream'[1].state)
       /\ TlsEvents(yielded' \o reader'.values) # <<>>
              => tlsStream'[1].state = "stream"
       /\ OnlyAppPlain(TlsPlain(yielded' \o reader'.values, 4), 0)
       /\ OnlyAppPlain(TlsPlain(yielded' \o reader'.values, 5), 10)]_vars

\* C25 witness: a flow handed on in three pairs has reached "stream" and
\* its "tls" events hold the plaintext of the protected records of both
\* sides, the generator having returned.
C25_Witness ==
    /\ tlsStream # None /\ pc = "done" /\ nread = MaxPairs
    /\ tlsStream[1].state = "stream"
    /\ TlsPlain(yielded, 4) = <<1, 2>>
    /\ TlsPlain(yielded, 5) = <<11, 12>>


(***************************************************************************)
(* pending (self.packets) and origins, over the captures of arbitrary      *)
(* segments.                                                               *)
(***************************************************************************)

\* The origins key of the segment stored under key k of pending.
OriginOf(st, k) == <<k[1] - Len(st.packets[k].data), k[2]>>

\* pending and origins of reassembler st correspond one to one.
OneToOne(st) ==
    /\ \A k \in DOMAIN st.packets :
           /\ OriginOf(st, k) \in DOMAIN st.origins
           /\ \A x \in DOMAIN st.origins :
                  st.origins[x] = k <=> x = OriginOf(st, k)
    /\ \A x \in DOMAIN st.origins : st.origins[x] \in DOMAIN st.packets

\* C26: in every reachable state of a reassembler, every key of pending
\* has exactly one origins entry, keyed by the start of the stored segment
\* and holding the key of pending, and every origins value is a key of
\* pending; the lookup of the retransmission branch never misses.
C26_OriginsMatchPending ==
    /\ \A k \in DOMAIN streamer.streams : OneToOne(streamer.streams[k])
    /\ last.err # "KeyError"

\* C26 witness: a reassembler has released a segment and still holds two.
C26_Witness ==
    \E k \in DOMAIN streamer.streams :
        /\ Cardinality(DOMAIN streamer.streams[k].packets) = 2
        /\ streamer.streams[k].sent \o streamer.streams[k].recv # <<>>


\* Every payload in the buffer was carried by a segment of direction dir.
CarriedBy(buf, dir) == \A i \in 1..Len(buf) : buf[i].dir = dir

\* No stored segment (named by its timestamp) is in the buffers twice.
ReleasedOnce(buf) ==
    \A i, j \in 1..Len(buf) : buf[i].ts = buf[j].ts => i = j

\* C27 (as claimed): in every reachable state, also where the sequence
\* spaces of the two sides coincide, every payload in sent was carried by a
\* segment processed with to_server = true and every payload in recv by
\* one processed with to_server = false, and no stored segment is released
\* twice.
C27_DirectionIntegrity ==
    \A k \in DOMAIN streamer.streams :
        /\ CarriedBy(streamer.streams[k].sent, TRUE)
        /\ CarriedBy(streamer.streams[k].recv, FALSE)
        /\ ReleasedOnce(streamer.streams[k].sent \o streamer.streams[k].recv)

====
